---- MODULE Spec2Model ----
(***************************************************************************)
(* LaserBridge (ESP32-C3): the offline G-code job state machine, the GRBL  *)
(* response reader and the WebSocket / HTTP command paths that share the   *)
(* UART to the laser controller.                                           *)
(*                                                                         *)
(* Text is modelled as sequences of one-character strings, so trimming,    *)
(* searching and line splitting are computed the way the Arduino String    *)
(* and Stream classes compute them.  Indices of the String operators are   *)
(* 0-based like the source; -1 means "not found".                          *)
(***************************************************************************)
EXTENDS Integers, Sequences, FiniteSets, TLC

(* ------------------------------ bounds -------------------------------- *)

\* Longest program file enumerated by the file-streaming specification.
MaxFileLen == 4
\* Longest line enumerated by the comment-stripping specification.
MaxLineLen == 4
\* Milliseconds that pass in one step of the clock.
TickStep == 30000
\* The clock stops advancing this many milliseconds after the model starts.
Horizon == 90001
\* The ghost count of unacknowledged command lines saturates here.
MaxUnacked == 2
\* WebSocket clients that can be connected at the same time.
MaxClients == 1
\* Command lines the peers leave unanswered at most in the response-correlation
\* specification before they send another.
MaxInflight == 2
\* Bytes the input buffer holds at most in the interactive-input
\* specification: the peer completes its line before it sends more.
MaxWsBuffer == 2
\* Bytes in the controller's stream of the poll-splitting specification.
MaxStreamLen == 4
\* Width in bits of the modelled millisecond counter.  millis() is a uint32_t;
\* TLC's integers are 32-bit signed, so the counter is modelled narrower, with
\* the same wrap-around arithmetic.
ClockBits == 20

(* ------------------------- program constants -------------------------- *)

COMMAND_TIMEOUT == 30000
HOMING_TIMEOUT == 60000
WS_BUFFER_LIMIT == 256
\* uint32_t arithmetic of millis() and lastCommandTime is modulo this.
Uint32 == 2^ClockBits

\* The soft-reset byte 0x18 (Ctrl-X).
CTRL_X == "CAN"
LF == "\n"
CR == "\r"

(* -------------------------- Arduino String ---------------------------- *)

\* isspace() as used by String::trim().
IsSpace(c) == c \in {" ", "\t", "\n", "\r"}

\* s without its leading white space
TrimLeft(s) ==
  IF \A i \in 1..Len(s) : IsSpace(s[i]) THEN <<>>
  ELSE SubSeq(s, CHOOSE i \in 1..Len(s) :
                   ~IsSpace(s[i]) /\ \A j \in 1..(i - 1) : IsSpace(s[j]), Len(s))

\* s without its trailing white space
TrimRight(s) ==
  IF \A i \in 1..Len(s) : IsSpace(s[i]) THEN <<>>
  ELSE SubSeq(s, 1, CHOOSE i \in 1..Len(s) :
                      ~IsSpace(s[i]) /\ \A j \in (i + 1)..Len(s) : IsSpace(s[j]))

\* String::trim()
Trim(s) == TrimRight(TrimLeft(s))

\* A faulty variant of IndexOf: the last occurrence instead of the first.
LastIndexOf(s, c) ==
  IF \E i \in 1..Len(s) : s[i] = c
  THEN (CHOOSE i \in 1..Len(s) : s[i] = c /\ \A j \in (i + 1)..Len(s) : s[j] # c) - 1
  ELSE -1

\* String::indexOf(char): 0-based index of the first occurrence, -1 if none.
IndexOf(s, c) ==
  IF \E i \in 1..Len(s) : s[i] = c
  THEN (CHOOSE i \in 1..Len(s) : s[i] = c /\ \A j \in 1..(i - 1) : s[j] # c) - 1
  ELSE -1

\* String::substring(0, to): the characters at 0-based positions 0..to-1.
Substring0(s, to) == SubSeq(s, 1, to)

\* String::startsWith(prefix)
StartsWith(s, p) == Len(s) >= Len(p) /\ SubSeq(s, 1, Len(p)) = p

\* String::endsWith(suffix)
EndsWith(s, p) == Len(s) >= Len(p) /\ SubSeq(s, Len(s) - Len(p) + 1, Len(s)) = p

\* String::replace("\r", "")
RemoveCR(s) == SelectSeq(s, LAMBDA c : c # CR)

\* Number of occurrences of character c in s.
CountChar(s, c) == Cardinality({i \in 1..Len(s) : s[i] = c})

Min(a, b) == IF a < b THEN a ELSE b

(* ------------------------------- File --------------------------------- *)

\* File::available() > 0 for a file with the given content read up to pos.
Available(content, pos) == pos < Len(content)

\* Stream::readStringUntil('\n') from position pos: the characters up to the
\* next LF (which is consumed and not returned) or up to the end of the file.
ReadStringUntilLF(content, pos) ==
  LET rest == SubSeq(content, pos + 1, Len(content))
      k    == IndexOf(rest, LF)
  IN  IF k >= 0
      THEN [line |-> SubSeq(rest, 1, k), pos |-> pos + k + 1]
      ELSE [line |-> rest, pos |-> Len(content)]

\* A faulty variant of CountLinesFrom: lines starting with '(' are counted too.
RECURSIVE CountLinesParen(_, _)
CountLinesParen(content, pos) ==
  IF ~Available(content, pos) THEN 0
  ELSE LET r    == ReadStringUntilLF(content, pos)
           line == Trim(r.line)
       IN  (IF Len(line) > 0 /\ ~StartsWith(line, <<";">>) THEN 1 ELSE 0)
           + CountLinesParen(content, r.pos)

\* countLines(): the lines that are non-empty after trim() and start with
\* neither ';' nor '('.
RECURSIVE CountLinesFrom(_, _)
CountLinesFrom(content, pos) ==
  IF ~Available(content, pos) THEN 0
  ELSE LET r    == ReadStringUntilLF(content, pos)
           line == Trim(r.line)
       IN  (IF Len(line) > 0 /\ ~StartsWith(line, <<";">>) /\ ~StartsWith(line, <<"(">>)
            THEN 1 ELSE 0) + CountLinesFrom(content, r.pos)

\* A faulty variant of StripInline: the trailing trim() is missing.
StripInlineNoTrim(line) ==
  LET p1 == IndexOf(line, ";")
      l1 == IF p1 > 0 THEN Substring0(line, p1) ELSE line
      p2 == IndexOf(l1, "(")
  IN  IF p2 > 0 THEN Substring0(l1, p2) ELSE l1

\* processJob(), "Remove inline comments": cut at the first ';' if it is
\* after position 0, then at the first '(' if it is after position 0, trim.
StripInline(line) ==
  LET p1 == IndexOf(line, ";")
      l1 == IF p1 > 0 THEN Substring0(line, p1) ELSE line
      p2 == IndexOf(l1, "(")
      l2 == IF p2 > 0 THEN Substring0(l1, p2) ELSE l1
  IN  Trim(l2)

\* The while loop of processJob() in the Running phase: read lines until one
\* is left non-empty after trimming, skipping and comment stripping (found),
\* or until the file has no more bytes (~found).
RECURSIVE NextCommand(_, _)
NextCommand(content, pos) ==
  IF ~Available(content, pos) THEN [found |-> FALSE, line |-> <<>>, pos |-> pos]
  ELSE LET r    == ReadStringUntilLF(content, pos)
           line == Trim(r.line)
       IN  IF Len(line) = 0 THEN NextCommand(content, r.pos)
           ELSE IF StartsWith(line, <<";">>) THEN NextCommand(content, r.pos)
           ELSE IF StartsWith(line, <<"(">>) THEN NextCommand(content, r.pos)
           ELSE LET cmd == StripInline(line)
                IN  IF Len(cmd) = 0 THEN NextCommand(content, r.pos)
                    ELSE [found |-> TRUE, line |-> cmd, pos |-> r.pos]


(* ------------------------------ state --------------------------------- *)

VARIABLES
  jobState,          \* JobState jobState
  gcodeFile,         \* File gcodeFile: [open, path, pos]
  currentJobFile,    \* String currentJobFile
  pendingJobFile,    \* String pendingJobFile
  totalLines,        \* uint32_t totalLines
  currentLine,       \* uint32_t currentLine
  waitingForOk,      \* bool waitingForOk
  lastCommandTime,   \* uint32_t lastCommandTime
  wsInputBuffer,     \* String wsInputBuffer
  wsLaserConnected,  \* bool wsLaserConnected
  wsClients,         \* wsLaser.connectedClients()
  lineBuffer,        \* static String lineBuffer of processGrblResponse()
  uptime,            \* true milliseconds since boot; millis() is uptime mod 2^32
  fs,                \* SPIFFS: path -> file content
  tx,                \* the bytes the last step wrote to LaserSerial
  event,             \* the last diagnostic the last step emitted ("" if none)
  unacked,           \* ghost: command lines written by the job or the WebSocket
                     \* path since the last ok / error: response or soft reset
  progSent,          \* ghost: the program lines grblSendLine() wrote for this job
  badClose,          \* ghost: close() was called on a handle that was not open
  sentAt,            \* ghost: uptime when the job last wrote a command
  inflight,          \* ghost: who wrote each command line the controller has
                     \* received and not answered yet, oldest first
  track,             \* ghost: TRUE in the specification that records inflight
  rxAll,             \* poll-splitting specification: the controller's byte stream
  rxStream,          \* poll-splitting specification: the bytes not yet polled
  rxSeen,            \* poll-splitting specification: the lines that reached the
                     \* classification of processGrblResponse(), in order
  strIn,             \* comment-stripping specification: the line as given
  strOut,            \* comment-stripping specification: the results of stripping
                     \* it once and of stripping that result again
  sendRet,           \* send-gate specification: what grblSendLine() returned to
                     \* its last direct caller ("none" before any call)
  serialLog,         \* String serialLog
  logBusy,           \* ghost: the last step added text to serialLog at a moment
                     \* when the job was Running or wsLaserConnected was true
  logOn              \* TRUE in the specifications that record serialLog

jobVars   == <<jobState, gcodeFile, currentJobFile, pendingJobFile, totalLines,
               currentLine, waitingForOk, lastCommandTime>>
wsVars    == <<wsInputBuffer, wsLaserConnected, wsClients>>
ghostVars == <<unacked, progSent, badClose, sentAt, inflight>>
strVars   == <<strIn, strOut, sendRet, track, rxAll, rxStream, rxSeen, logOn>>
logVars   == <<serialLog, logBusy>>
vars      == <<jobVars, wsVars, lineBuffer, uptime, fs, tx, event, ghostVars, strVars,
               logVars>>

JOB_IDLE        == "Idle"
JOB_PRE_HOMING  == "PreHoming"
JOB_RUNNING     == "Running"
JOB_POST_HOMING == "PostHoming"
JOB_PAUSED      == "Paused"
JOB_COMPLETE    == "Complete"
JOB_ERROR       == "Error"
JobStates == {JOB_IDLE, JOB_PRE_HOMING, JOB_RUNNING, JOB_POST_HOMING,
              JOB_PAUSED, JOB_COMPLETE, JOB_ERROR}

\* A File object that evaluates to false: never opened, or closed.
ClosedFile == [open |-> FALSE, path |-> <<>>, pos |-> 0]

\* SPIFFS.open(path, "r") of an existing file.
OpenFile(path) == [open |-> TRUE, path |-> path, pos |-> 0]

\* millis()
Millis == uptime % Uint32

\* A faulty variant of Elapsed: the clock is compared with itself, so no
\* time ever seems to have passed since the send.
ElapsedSameInstant == (Millis - Millis) % Uint32

\* A faulty variant of Elapsed: the difference is taken in signed arithmetic
\* of unlimited width, so it is negative after the clock has wrapped.
ElapsedSigned == Millis - lastCommandTime

\* millis() - lastCommandTime in uint32_t arithmetic.
Elapsed == (Millis - lastCommandTime) % Uint32

\* Print::println(s) writes s followed by CR LF.
Println(s) == s \o <<CR, LF>>

HomeCmd == <<"$", "H">>
UnlockCmd == <<"$", "X">>

\* Ghost bookkeeping of unacked for a step that wrote the bytes out.
\* The controller's queue q of unanswered command lines after the bytes out,
\* written by src, have arrived: a soft reset empties the queue, every line
\* feed completes one command line, realtime bytes are not queued.
RECURSIVE EnqBytes(_, _, _)
EnqBytes(q, src, out) ==
  IF out = <<>> THEN q
  ELSE LET c == Head(out)
       IN  EnqBytes(IF c = CTRL_X THEN <<>>
                    ELSE IF c = LF THEN Append(q, src)
                    ELSE q, src, Tail(out))

Enq(q, src, out) == IF track THEN EnqBytes(q, src, out) ELSE q

\* The controller's queue after it has answered its oldest command line.
Pop(q) == IF q = <<>> THEN q ELSE Tail(q)

Outstanding(n, out) ==
  IF CountChar(out, CTRL_X) > 0 THEN 0
  ELSE Min(MaxUnacked, n + CountChar(out, LF))

(* ---------------------------- sample data ----------------------------- *)

\* "G1 X(c)" CR LF "(x)" CR LF " " LF ";e" LF "M5 ;e"   (no LF at the end)
FileB == <<"G", "1", " ", "X", "(", "c", ")", CR, LF,
           "(", "x", ")", CR, LF,
           " ", LF,
           ";", "e", LF,
           "M", "5", " ", ";", "e">>

\* The example program of the specification:
\* "G0 X0", ";comment", "G1 X10 ; move", "", "M5", each ended by LF.
ScenarioA == <<"G", "0", " ", "X", "0", LF,
               ";", "c", "o", "m", "m", "e", "n", "t", LF,
               "G", "1", " ", "X", "1", "0", " ", ";", " ", "m", "o", "v", "e", LF,
               LF,
               "M", "5", LF>>

PathB == <<"/", "b">>
NameB == <<"b">>
NameMissing == <<"m">>

\* The file names a start request is tried with.
FileNames == {NameB, NameMissing}

\* The characters program files and lines are enumerated over.
FileAlphabet == {"G", " ", ";", "(", LF}
LineAlphabet == {"G", " ", ";", "("}

\* All sequences over alphabet a of length at most n.
SeqsUpTo(a, n) == UNION {[1..k -> a] : k \in 0..n}


(* ------------------------------- GRBL --------------------------------- *)

\* A faulty variant of GrblSendLine: the send time is not recorded.
GrblSendLineStale(line) ==
  [ret |-> TRUE, out |-> Println(line), waitingForOk |-> TRUE,
   lastCommandTime |-> lastCommandTime]

\* grblSendLine(line): writes the line, sets waitingForOk, records the time
\* and returns true; it does not look at waitingForOk.
GrblSendLine(line) ==
  [ret |-> TRUE, out |-> Println(line), waitingForOk |-> TRUE, lastCommandTime |-> Millis]

\* A faulty variant of GrblSendGcodeLine: the line is comment-stripped like
\* a program line before it is written.
GrblSendGcodeLineStripped(rawLine) ==
  LET line == StripInline(Trim(RemoveCR(rawLine)))
  IN  IF Len(line) = 0 THEN <<>>
      ELSE IF Len(line) = 1 /\ line[1] \in {"?", "!", "~"} THEN line
      ELSE IF Len(line) = 1 /\ line[1] = CTRL_X THEN line
      ELSE line \o <<LF>>

\* grblSendGcodeLine(rawLine): the bytes it writes to LaserSerial.  It reads
\* and writes neither waitingForOk nor lastCommandTime.
GrblSendGcodeLine(rawLine) ==
  LET line == Trim(RemoveCR(rawLine))
  IN  IF Len(line) = 0 THEN <<>>
      ELSE IF Len(line) = 1 /\ line[1] \in {"?", "!", "~"} THEN line
      ELSE IF Len(line) = 1 /\ line[1] = CTRL_X THEN line
      ELSE line \o <<LF>>

(* -------------------------------- log --------------------------------- *)

\* const size_t MAX_LOG
MAX_LOG == 2048

\* String(n) of an unsigned number: its decimal digits.
RECURSIVE Decimal(_)
Decimal(n) ==
  LET d == <<"0", "1", "2", "3", "4", "5", "6", "7", "8", "9">>[(n % 10) + 1]
  IN  IF n < 10 THEN <<d>> ELSE Decimal(n \div 10) \o <<d>>

\* A faulty variant of AppendToLog: text is added while a client is connected.
AppendToLogRunningOnly(log, js, s) ==
  IF js = JOB_RUNNING THEN log
  ELSE LET t == log \o s
       IN  IF Len(t) > MAX_LOG THEN SubSeq(t, Len(t) - MAX_LOG + 1, Len(t)) ELSE t

\* appendToLog(s) called when the job state is js: the new serialLog.
\* Nothing is added while the job is Running or a WebSocket client is
\* connected; otherwise s is added and the oldest characters beyond MAX_LOG
\* are removed.
AppendToLog(log, js, s) ==
  IF js = JOB_RUNNING \/ wsLaserConnected THEN log
  ELSE LET t == log \o s
       IN  IF Len(t) > MAX_LOG THEN SubSeq(t, Len(t) - MAX_LOG + 1, Len(t)) ELSE t

\* setup(): appendToLog("LaserBridge v2 gestartet\n")
MsgBanner ==
  <<"L", "a", "s", "e", "r", "B", "r", "i", "d", "g", "e", " ", "v", "2",
    " ", "g", "e", "s", "t", "a", "r", "t", "e", "t", LF>>

\* startJob()
MsgFileNotFound ==
  <<LF, "E", "R", "R", ":", " ", "F", "i", "l", "e", " ", "n", "o", "t", " ",
    "f", "o", "u", "n", "d">>

\* startJob()
MsgPreHoming ==
  <<LF, ">", ">", " ", "$", "H", " ", "(", "P", "r", "e", "-", "H", "o", "m",
    "i", "n", "g", ")">>

\* processJob()
MsgCannotOpen ==
  <<LF, "E", "R", "R", ":", " ", "C", "a", "n", "n", "o", "t", " ", "o", "p",
    "e", "n", " ", "f", "i", "l", "e">>

\* processJob(): "\nJob: ", followed by currentJobFile
MsgJob ==
  <<LF, "J", "o", "b", ":", " ">>

\* processJob(): "\nLines: ", followed by String(totalLines)
MsgLines ==
  <<LF, "L", "i", "n", "e", "s", ":", " ">>

\* processJob()
MsgHomingTimeout ==
  <<LF, "H", "o", "m", "i", "n", "g", " ", "T", "i", "m", "e", "o", "u", "t",
    "!">>

\* processJob()
MsgJobComplete ==
  <<LF, "J", "o", "b", " ", "c", "o", "m", "p", "l", "e", "t", "e", "!">>

\* processJob()
MsgPostHomingTimeout ==
  <<LF, "P", "o", "s", "t", "-", "H", "o", "m", "i", "n", "g", " ", "T", "i",
    "m", "e", "o", "u", "t", "!">>

\* processJob()
MsgTimeout ==
  <<LF, "T", "i", "m", "e", "o", "u", "t", "!">>

\* processJob()
MsgPostHoming ==
  <<LF, ">", ">", " ", "$", "H", " ", "(", "P", "o", "s", "t", "-", "H", "o",
    "m", "i", "n", "g", ")">>

\* handleGrbl()
MsgUnlock ==
  <<LF, ">", ">", " ", "$", "X">>

\* handleGrbl()
MsgHome ==
  <<LF, ">", ">", " ", "$", "H">>

\* handleGrbl()
MsgReset ==
  <<LF, ">", ">", " ", "R", "e", "s", "e", "t">>

\* handleGrbl(): "\n>> ", followed by g
MsgGcode ==
  <<LF, ">", ">", " ">>

\* wsLaserEvent(): "\n[WS] Client ", followed by the client number
MsgWsClient ==
  <<LF, "[", "W", "S", "]", " ", "C", "l", "i", "e", "n", "t", " ">>

\* wsLaserEvent(): " from ", followed by the address of the peer
MsgWsFrom ==
  <<" ", "f", "r", "o", "m", " ">>

\* wsLaserEvent()
MsgWsSentReset ==
  <<LF, "[", "W", "S", "]", " ", "S", "e", "n", "t", " ", "G", "R", "B", "L",
    " ", "r", "e", "s", "e", "t">>

\* wsLaserEvent()
MsgWsDisconnected ==
  <<" ", "d", "i", "s", "c", "o", "n", "n", "e", "c", "t", "e", "d">>

\* wsLaserEvent(): "\n[WS] ERROR client ", followed by the client number
MsgWsError ==
  <<LF, "[", "W", "S", "]", " ", "E", "R", "R", "O", "R", " ", "c", "l", "i",
    "e", "n", "t", " ">>

\* wsLaser.remoteIP(num).toString() of the peer: an address of the access-point network
ClientIp ==
  <<"1", "9", "2", ".", "1", "6", "8", ".", "4", ".", "2">>

\* Text was added to the log old, giving new, at a moment when the job state
\* was js and wsLaserConnected was conn: was the job Running or a client
\* connected at that moment?
Busy(old, new, js, conn) ==
  new # old /\ new # <<>> /\ (js = JOB_RUNNING \/ conn)

\* The step leaves l in serialLog; busy tells whether it added text while
\* the job was Running or a client was connected.  The log is recorded
\* only where logOn.
LogStep(l, busy) ==
  /\ serialLog' = IF logOn THEN l ELSE serialLog
  /\ logBusy' = (logOn /\ busy)

\* The step leaves l in serialLog, written when the job state was js and
\* wsLaserConnected was conn.
LogAt(l, js, conn) == LogStep(l, Busy(serialLog, l, js, conn))

\* A step that does not touch the log.
NoLog == LogStep(serialLog, FALSE)

\* The job state at the appendToLog() call of startJob() or processJob()
\* that goes with the diagnostic ev: the calls for the homing commands and
\* for the completion come after the assignment to jobState.
JobLogState(ev) ==
  CASE ev = ">> $H (Pre-Homing)"  -> JOB_PRE_HOMING
    [] ev = "Job complete!"       -> JOB_COMPLETE
    [] ev = ">> $H (Post-Homing)" -> JOB_POST_HOMING
    [] OTHER                      -> jobState

\* The text of that call; the two calls after a successful open are in
\* LogJob.
JobLogText(ev) ==
  CASE ev = "ERR: File not found"   -> MsgFileNotFound
    [] ev = ">> $H (Pre-Homing)"    -> MsgPreHoming
    [] ev = "ERR: Cannot open file" -> MsgCannotOpen
    [] ev = "Homing Timeout!"       -> MsgHomingTimeout
    [] ev = "Job complete!"         -> MsgJobComplete
    [] ev = "Post-Homing Timeout!"  -> MsgPostHomingTimeout
    [] ev = "Timeout!"              -> MsgTimeout
    [] ev = ">> $H (Post-Homing)"   -> MsgPostHoming
    [] OTHER                        -> <<>>

\* The appendToLog() calls of startJob() and processJob() that go with the
\* diagnostic ev of the step.
LogJob(ev) ==
  LogAt(IF ev = "Job: / Lines:"
        THEN AppendToLog(AppendToLog(serialLog, jobState, MsgJob \o currentJobFile),
                         jobState, MsgLines \o Decimal(totalLines))
        ELSE IF JobLogText(ev) = <<>> THEN serialLog
        ELSE AppendToLog(serialLog, JobLogState(ev), JobLogText(ev)),
        JobLogState(ev), wsLaserConnected)

\* processGrblResponse(), the log of a non-empty line: it is logged unless
\* the job is Running, and a line that begins with Grbl is logged again.
RxLog(log, js, line) ==
  LET l1 == IF js # JOB_RUNNING THEN AppendToLog(log, js, <<LF>> \o line) ELSE log
  IN  IF StartsWith(line, <<"G", "r", "b", "l">>) /\ js # JOB_RUNNING
      THEN AppendToLog(l1, js, <<LF>> \o line) ELSE l1

OkLine      == <<"o", "k">>
ErrorPrefix == <<"e", "r", "r", "o", "r", ":">>
AlarmPrefix == <<"A", "L", "A", "R", "M", ":">>
GrblPrefix  == <<"G", "r", "b", "l">>

\* A faulty variant of RxEndOfLine: an error: line ends a Running job.
RxEndOfLineErrorStops(st) ==
  LET line == Trim(st.lineBuffer)
      done == [st EXCEPT !.lineBuffer = <<>>,
                         !.seen = IF Len(line) = 0 THEN st.seen
                                  ELSE Append(st.seen, line),
                         !.log = IF Len(line) = 0 THEN st.log
                                 ELSE RxLog(st.log, st.jobState, line),
                         !.busy = st.busy \/
                                  (Len(line) > 0 /\
                                   Busy(st.log, RxLog(st.log, st.jobState, line),
                                        st.jobState, wsLaserConnected))]
  IN  IF Len(line) = 0 THEN done
      ELSE IF line = OkLine
        THEN [done EXCEPT !.waitingForOk = FALSE, !.unacked = 0,
                          !.inflight = Pop(st.inflight)]
      ELSE IF StartsWith(line, ErrorPrefix)
        THEN [done EXCEPT !.waitingForOk = FALSE, !.unacked = 0,
                          !.inflight = Pop(st.inflight), !.event = "GRBL Error",
                          !.jobState = IF st.jobState = JOB_RUNNING THEN JOB_ERROR
                                       ELSE st.jobState]
      ELSE IF StartsWith(line, AlarmPrefix)
        THEN IF st.jobState = JOB_RUNNING
             THEN [done EXCEPT !.jobState = JOB_ERROR,
                               !.gcodeFile = IF st.gcodeFile.open THEN ClosedFile
                                             ELSE st.gcodeFile,
                               !.event = "GRBL Alarm"]
             ELSE [done EXCEPT !.event = "GRBL Alarm"]
      ELSE IF StartsWith(line, GrblPrefix)
        THEN [done EXCEPT !.event = "GRBL"]
      ELSE done

\* A faulty variant of RxEndOfLine: an ALARM: line ends the job in every state.
RxEndOfLineAlarmAlways(st) ==
  LET line == Trim(st.lineBuffer)
      done == [st EXCEPT !.lineBuffer = <<>>,
                         !.seen = IF Len(line) = 0 THEN st.seen
                                  ELSE Append(st.seen, line),
                         !.log = IF Len(line) = 0 THEN st.log
                                 ELSE RxLog(st.log, st.jobState, line),
                         !.busy = st.busy \/
                                  (Len(line) > 0 /\
                                   Busy(st.log, RxLog(st.log, st.jobState, line),
                                        st.jobState, wsLaserConnected))]
  IN  IF Len(line) = 0 THEN done
      ELSE IF line = OkLine
        THEN [done EXCEPT !.waitingForOk = FALSE, !.unacked = 0,
                          !.inflight = Pop(st.inflight)]
      ELSE IF StartsWith(line, ErrorPrefix)
        THEN [done EXCEPT !.waitingForOk = FALSE, !.unacked = 0,
                          !.inflight = Pop(st.inflight), !.event = "GRBL Error"]
      ELSE IF StartsWith(line, AlarmPrefix)
        THEN IF TRUE
             THEN [done EXCEPT !.jobState = JOB_ERROR,
                               !.gcodeFile = IF st.gcodeFile.open THEN ClosedFile
                                             ELSE st.gcodeFile,
                               !.event = "GRBL Alarm"]
             ELSE [done EXCEPT !.event = "GRBL Alarm"]
      ELSE IF StartsWith(line, GrblPrefix)
        THEN [done EXCEPT !.event = "GRBL"]
      ELSE done

\* A faulty variant of RxEndOfLine: a line that begins with ok is an acknowledgment.
RxEndOfLineOkPrefix(st) ==
  LET line == Trim(st.lineBuffer)
      done == [st EXCEPT !.lineBuffer = <<>>,
                         !.seen = IF Len(line) = 0 THEN st.seen
                                  ELSE Append(st.seen, line),
                         !.log = IF Len(line) = 0 THEN st.log
                                 ELSE RxLog(st.log, st.jobState, line),
                         !.busy = st.busy \/
                                  (Len(line) > 0 /\
                                   Busy(st.log, RxLog(st.log, st.jobState, line),
                                        st.jobState, wsLaserConnected))]
  IN  IF Len(line) = 0 THEN done
      ELSE IF StartsWith(line, OkLine)
        THEN [done EXCEPT !.waitingForOk = FALSE, !.unacked = 0,
                          !.inflight = Pop(st.inflight)]
      ELSE IF StartsWith(line, ErrorPrefix)
        THEN [done EXCEPT !.waitingForOk = FALSE, !.unacked = 0,
                          !.inflight = Pop(st.inflight), !.event = "GRBL Error"]
      ELSE IF StartsWith(line, AlarmPrefix)
        THEN IF st.jobState = JOB_RUNNING
             THEN [done EXCEPT !.jobState = JOB_ERROR,
                               !.gcodeFile = IF st.gcodeFile.open THEN ClosedFile
                                             ELSE st.gcodeFile,
                               !.event = "GRBL Alarm"]
             ELSE [done EXCEPT !.event = "GRBL Alarm"]
      ELSE IF StartsWith(line, GrblPrefix)
        THEN [done EXCEPT !.event = "GRBL"]
      ELSE done

\* processGrblResponse(), the branch taken when the byte read is '\n':
\* st carries the variables the function reads and writes.
RxEndOfLine(st) ==
  LET line == Trim(st.lineBuffer)
      done == [st EXCEPT !.lineBuffer = <<>>,
                         !.seen = IF Len(line) = 0 THEN st.seen
                                  ELSE Append(st.seen, line),
                         !.log = IF Len(line) = 0 THEN st.log
                                 ELSE RxLog(st.log, st.jobState, line),
                         !.busy = st.busy \/
                                  (Len(line) > 0 /\
                                   Busy(st.log, RxLog(st.log, st.jobState, line),
                                        st.jobState, wsLaserConnected))]
  IN  IF Len(line) = 0 THEN done
      ELSE IF line = OkLine
        THEN [done EXCEPT !.waitingForOk = FALSE, !.unacked = 0,
                          !.inflight = Pop(st.inflight)]
      ELSE IF StartsWith(line, ErrorPrefix)
        THEN [done EXCEPT !.waitingForOk = FALSE, !.unacked = 0,
                          !.inflight = Pop(st.inflight), !.event = "GRBL Error"]
      ELSE IF StartsWith(line, AlarmPrefix)
        THEN IF st.jobState = JOB_RUNNING
             THEN [done EXCEPT !.jobState = JOB_ERROR,
                               !.gcodeFile = IF st.gcodeFile.open THEN ClosedFile
                                             ELSE st.gcodeFile,
                               !.event = "GRBL Alarm"]
             ELSE [done EXCEPT !.event = "GRBL Alarm"]
      ELSE IF StartsWith(line, GrblPrefix)
        THEN [done EXCEPT !.event = "GRBL"]
      ELSE done

\* A faulty variant of RxByte: carriage returns are kept in the line.
RxByteKeepCR(st, c) ==
  IF c = LF THEN RxEndOfLine(st)
  ELSE [st EXCEPT !.lineBuffer = st.lineBuffer \o <<c>>]

\* processGrblResponse(), one byte c read from LaserSerial.
RxByte(st, c) ==
  IF c = LF THEN RxEndOfLine(st)
  ELSE IF c # CR THEN [st EXCEPT !.lineBuffer = st.lineBuffer \o <<c>>]
  ELSE st

\* processGrblResponse(), the while loop over the bytes that are available.
RECURSIVE RxBytes(_, _)
RxBytes(st, bytes) ==
  IF bytes = <<>> THEN st ELSE RxBytes(RxByte(st, Head(bytes)), Tail(bytes))

(* ---------------------------- job control ----------------------------- *)

\* startJob(): String path = filename.startsWith("/") ? filename : "/" + filename
Path(filename) == IF StartsWith(filename, <<"/">>) THEN filename ELSE <<"/">> \o filename

\* A faulty variant of JobActive: only a Running job refuses a start request.
JobActiveRunningOnly == jobState = JOB_RUNNING

\* startJob(), its first line: the states in which a start request is ignored
JobActive == jobState \in {JOB_RUNNING, JOB_PRE_HOMING, JOB_POST_HOMING}

\* A faulty variant of StartJobNotFound: the job is reset before the file is checked.
StartJobNotFoundReset ==
  /\ jobState' = JOB_ERROR
  /\ event' = "ERR: File not found"
  /\ LogJob("ERR: File not found")
  /\ tx' = <<>>
  /\ currentLine' = 0
  /\ UNCHANGED <<gcodeFile, currentJobFile, pendingJobFile, totalLines,
                 waitingForOk, lastCommandTime, ghostVars>>

\* startJob(), the file does not exist
StartJobNotFound ==
  /\ jobState' = JOB_ERROR
  /\ event' = "ERR: File not found"
  /\ LogJob("ERR: File not found")
  /\ tx' = <<>>
  /\ UNCHANGED <<gcodeFile, currentJobFile, pendingJobFile, totalLines,
                 currentLine, waitingForOk, lastCommandTime, ghostVars>>

\* A faulty variant of StartJobHoming: the send time of $H is not recorded.
StartJobHomingStale(filename) ==
  /\ pendingJobFile' = Path(filename)
  /\ currentJobFile' = filename
  /\ totalLines' = CountLinesFrom(fs[Path(filename)], 0)
  /\ currentLine' = 0
  /\ jobState' = JOB_PRE_HOMING
  /\ waitingForOk' = TRUE
  /\ event' = ">> $H (Pre-Homing)"
  /\ LogJob(">> $H (Pre-Homing)")
  /\ tx' = Println(HomeCmd)
  /\ unacked' = Outstanding(unacked, Println(HomeCmd))
  /\ inflight' = Enq(inflight, "job", Println(HomeCmd))
  /\ progSent' = <<>>
  /\ sentAt' = uptime
  /\ UNCHANGED <<gcodeFile, badClose, lastCommandTime>>

\* startJob(), the file exists: count its lines and start the pre-homing
StartJobHoming(filename) ==
  /\ pendingJobFile' = Path(filename)
  /\ currentJobFile' = filename
  /\ totalLines' = CountLinesFrom(fs[Path(filename)], 0)
  /\ currentLine' = 0
  /\ jobState' = JOB_PRE_HOMING
  /\ waitingForOk' = TRUE
  /\ lastCommandTime' = Millis
  /\ event' = ">> $H (Pre-Homing)"
  /\ LogJob(">> $H (Pre-Homing)")
  /\ tx' = Println(HomeCmd)
  /\ unacked' = Outstanding(unacked, Println(HomeCmd))
  /\ inflight' = Enq(inflight, "job", Println(HomeCmd))
  /\ progSent' = <<>>
  /\ sentAt' = uptime
  /\ UNCHANGED <<gcodeFile, badClose>>

\* handleJob() with action=start and a file name: startJob(filename)
StartJob(filename) ==
  /\ Len(filename) > 0
  /\ IF JobActive
     THEN /\ tx' = <<>>
          /\ event' = ""
          /\ LogJob("")
          /\ UNCHANGED <<jobVars, ghostVars>>
     ELSE IF Path(filename) \notin DOMAIN fs
     THEN StartJobNotFound
     ELSE StartJobHoming(filename)
  /\ UNCHANGED <<wsVars, lineBuffer, uptime, fs, strVars>>

\* A faulty variant of PauseJob: pausing sets the line counter back to 0.
PauseJobResetsCursor ==
  /\ IF jobState = JOB_RUNNING
     THEN /\ tx' = <<"!">>
          /\ jobState' = JOB_PAUSED
     ELSE /\ tx' = <<>>
          /\ UNCHANGED jobState
  /\ event' = ""
  /\ currentLine' = 0
  /\ UNCHANGED <<gcodeFile, currentJobFile, pendingJobFile, totalLines,
                 waitingForOk, lastCommandTime>>
  /\ UNCHANGED <<wsVars, lineBuffer, uptime, fs, ghostVars, strVars>>
  /\ NoLog

\* handleJob() with action=pause: pauseJob()
PauseJob ==
  /\ IF jobState = JOB_RUNNING
     THEN /\ tx' = <<"!">>
          /\ jobState' = JOB_PAUSED
     ELSE /\ tx' = <<>>
          /\ UNCHANGED jobState
  /\ event' = ""
  /\ UNCHANGED <<gcodeFile, currentJobFile, pendingJobFile, totalLines, currentLine,
                 waitingForOk, lastCommandTime>>
  /\ UNCHANGED <<wsVars, lineBuffer, uptime, fs, ghostVars, strVars>>
  /\ NoLog

\* A faulty variant of ResumeJob: resuming rewinds the program file.
ResumeJobRewind ==
  /\ IF jobState = JOB_PAUSED
     THEN /\ tx' = <<"~">>
          /\ jobState' = JOB_RUNNING
          /\ gcodeFile' = [gcodeFile EXCEPT !.pos = 0]
     ELSE /\ tx' = <<>>
          /\ UNCHANGED <<jobState, gcodeFile>>
  /\ event' = ""
  /\ UNCHANGED <<currentJobFile, pendingJobFile, totalLines, currentLine,
                 waitingForOk, lastCommandTime>>
  /\ UNCHANGED <<wsVars, lineBuffer, uptime, fs, ghostVars, strVars>>
  /\ NoLog

\* A faulty variant of ResumeJob: the state is not checked.
ResumeJobAnyState ==
  /\ tx' = <<"~">>
  /\ jobState' = JOB_RUNNING
  /\ event' = ""
  /\ UNCHANGED <<gcodeFile, currentJobFile, pendingJobFile, totalLines, currentLine,
                 waitingForOk, lastCommandTime>>
  /\ UNCHANGED <<wsVars, lineBuffer, uptime, fs, ghostVars, strVars>>
  /\ NoLog

\* handleJob() with action=resume: resumeJob()
ResumeJob ==
  /\ IF jobState = JOB_PAUSED
     THEN /\ tx' = <<"~">>
          /\ jobState' = JOB_RUNNING
     ELSE /\ tx' = <<>>
          /\ UNCHANGED jobState
  /\ event' = ""
  /\ UNCHANGED <<gcodeFile, currentJobFile, pendingJobFile, totalLines, currentLine,
                 waitingForOk, lastCommandTime>>
  /\ UNCHANGED <<wsVars, lineBuffer, uptime, fs, ghostVars, strVars>>
  /\ NoLog

\* A faulty variant of StopJob: the open program file is not closed.
StopJobKeepFile ==
  /\ tx' = <<CTRL_X>>
  /\ jobState' = JOB_IDLE
  /\ currentLine' = 0
  /\ totalLines' = 0
  /\ currentJobFile' = <<>>
  /\ pendingJobFile' = <<>>
  /\ waitingForOk' = FALSE
  /\ event' = ""
  /\ unacked' = 0
  /\ inflight' = <<>>
  /\ progSent' = <<>>
  /\ UNCHANGED <<gcodeFile, lastCommandTime, badClose, sentAt>>
  /\ UNCHANGED <<wsVars, lineBuffer, uptime, fs, strVars>>
  /\ NoLog

\* A faulty variant of StopJob: the line counters are not reset.
StopJobKeepCursor ==
  /\ tx' = <<CTRL_X>>
  /\ gcodeFile' = IF gcodeFile.open THEN ClosedFile ELSE gcodeFile
  /\ jobState' = JOB_IDLE
  /\ currentJobFile' = <<>>
  /\ pendingJobFile' = <<>>
  /\ waitingForOk' = FALSE
  /\ event' = ""
  /\ unacked' = 0
  /\ inflight' = <<>>
  /\ progSent' = <<>>
  /\ UNCHANGED <<currentLine, totalLines, lastCommandTime, badClose, sentAt>>
  /\ UNCHANGED <<wsVars, lineBuffer, uptime, fs, strVars>>
  /\ NoLog

\* handleJob() with action=stop: stopJob(), which begins with grblReset()
StopJob ==
  /\ tx' = <<CTRL_X>>
  /\ gcodeFile' = IF gcodeFile.open THEN ClosedFile ELSE gcodeFile
  /\ jobState' = JOB_IDLE
  /\ currentLine' = 0
  /\ totalLines' = 0
  /\ currentJobFile' = <<>>
  /\ pendingJobFile' = <<>>
  /\ waitingForOk' = FALSE
  /\ event' = ""
  /\ unacked' = 0
  /\ inflight' = <<>>
  /\ progSent' = <<>>
  /\ UNCHANGED <<lastCommandTime, badClose, sentAt>>
  /\ UNCHANGED <<wsVars, lineBuffer, uptime, fs, strVars>>
  /\ NoLog


\* A faulty variant of ProcessJobPreHoming: the result of open() is not checked.
ProcessJobPreHomingNoCheck ==
  IF ~waitingForOk
  THEN /\ gcodeFile' = IF pendingJobFile \in DOMAIN fs THEN OpenFile(pendingJobFile)
                       ELSE ClosedFile
       /\ jobState' = JOB_RUNNING
       /\ event' = "Job: / Lines:"
       /\ LogJob("Job: / Lines:")
  ELSE IF Elapsed > HOMING_TIMEOUT
       THEN /\ jobState' = JOB_ERROR
            /\ event' = "Homing Timeout!"
            /\ LogJob("Homing Timeout!")
            /\ UNCHANGED gcodeFile
       ELSE /\ event' = ""
            /\ LogJob("")
            /\ UNCHANGED <<jobState, gcodeFile>>

\* processJob(), Pre-Homing phase
ProcessJobPreHoming ==
  IF ~waitingForOk
  THEN IF pendingJobFile \in DOMAIN fs
       THEN /\ gcodeFile' = OpenFile(pendingJobFile)
            /\ jobState' = JOB_RUNNING
            /\ event' = "Job: / Lines:"
            /\ LogJob("Job: / Lines:")
       ELSE /\ gcodeFile' = ClosedFile
            /\ jobState' = JOB_ERROR
            /\ event' = "ERR: Cannot open file"
            /\ LogJob("ERR: Cannot open file")
  ELSE IF Elapsed > HOMING_TIMEOUT
       THEN /\ jobState' = JOB_ERROR
            /\ event' = "Homing Timeout!"
            /\ LogJob("Homing Timeout!")
            /\ UNCHANGED gcodeFile
       ELSE /\ event' = ""
            /\ LogJob("")
            /\ UNCHANGED <<jobState, gcodeFile>>

\* A faulty variant of ProcessJobPostHoming: a timeout is an error, as in pre-homing.
ProcessJobPostHomingStrict ==
  IF ~waitingForOk
  THEN /\ jobState' = JOB_COMPLETE
       /\ event' = "Job complete!"
       /\ LogJob("Job complete!")
  ELSE IF Elapsed > HOMING_TIMEOUT
       THEN /\ jobState' = JOB_ERROR
            /\ event' = "Post-Homing Timeout!"
            /\ LogJob("Post-Homing Timeout!")
       ELSE /\ event' = ""
            /\ LogJob("")
            /\ UNCHANGED jobState

\* processJob(), Post-Homing phase
ProcessJobPostHoming ==
  IF ~waitingForOk
  THEN /\ jobState' = JOB_COMPLETE
       /\ event' = "Job complete!"
       /\ LogJob("Job complete!")
  ELSE IF Elapsed > HOMING_TIMEOUT
       THEN /\ jobState' = JOB_COMPLETE
            /\ event' = "Post-Homing Timeout!"
            /\ LogJob("Post-Homing Timeout!")
       ELSE /\ event' = ""
            /\ LogJob("")
            /\ UNCHANGED jobState

\* A faulty variant of ProcessJobWaiting: the file is left open on a timeout.
ProcessJobWaitingNoClose ==
  IF Elapsed > COMMAND_TIMEOUT
  THEN /\ jobState' = JOB_ERROR
       /\ event' = "Timeout!"
       /\ LogJob("Timeout!")
       /\ UNCHANGED <<gcodeFile, badClose>>
  ELSE /\ event' = ""
       /\ LogJob("")
       /\ UNCHANGED <<jobState, gcodeFile, badClose>>

\* processJob(), Running phase with a command pending: the timeout check
ProcessJobWaiting ==
  IF Elapsed > COMMAND_TIMEOUT
  THEN /\ jobState' = JOB_ERROR
       /\ gcodeFile' = ClosedFile
       /\ badClose' = (badClose \/ ~gcodeFile.open)
       /\ event' = "Timeout!"
       /\ LogJob("Timeout!")
  ELSE /\ event' = ""
       /\ LogJob("")
       /\ UNCHANGED <<jobState, gcodeFile, badClose>>

\* processJob(), Running phase with no command pending: send the next
\* program line, or close the file and start the post-homing at its end
ProcessJobSend ==
  LET content == IF gcodeFile.open THEN fs[gcodeFile.path] ELSE <<>>
      r       == NextCommand(content, gcodeFile.pos)
      sent    == GrblSendLine(r.line)
  IN  IF r.found
      THEN /\ tx' = sent.out
           /\ waitingForOk' = sent.waitingForOk
           /\ lastCommandTime' = sent.lastCommandTime
           /\ currentLine' = currentLine + 1
           /\ gcodeFile' = [gcodeFile EXCEPT !.pos = r.pos]
           /\ event' = ""
           /\ LogJob("")
           /\ unacked' = Outstanding(unacked, sent.out)
           /\ inflight' = Enq(inflight, "job", sent.out)
           /\ progSent' = Append(progSent, r.line)
           /\ sentAt' = uptime
           /\ UNCHANGED <<jobState, badClose>>
      ELSE /\ gcodeFile' = ClosedFile
           /\ badClose' = (badClose \/ ~gcodeFile.open)
           /\ jobState' = JOB_POST_HOMING
           /\ waitingForOk' = TRUE
           /\ lastCommandTime' = Millis
           /\ event' = ">> $H (Post-Homing)"
           /\ LogJob(">> $H (Post-Homing)")
           /\ tx' = Println(HomeCmd)
           /\ unacked' = Outstanding(unacked, Println(HomeCmd))
           /\ inflight' = Enq(inflight, "job", Println(HomeCmd))
           /\ sentAt' = uptime
           /\ UNCHANGED <<currentLine, progSent>>

\* A faulty variant of ProcessJob: a Running tick sends without looking at
\* the pending flag.
ProcessJobNoWait ==
  /\ IF jobState = JOB_PRE_HOMING
     THEN /\ ProcessJobPreHoming
          /\ tx' = <<>>
          /\ UNCHANGED <<currentLine, waitingForOk, lastCommandTime, ghostVars>>
     ELSE IF jobState = JOB_POST_HOMING
     THEN /\ ProcessJobPostHoming
          /\ tx' = <<>>
          /\ UNCHANGED <<gcodeFile, currentLine, waitingForOk, lastCommandTime, ghostVars>>
     ELSE IF jobState # JOB_RUNNING
     THEN /\ tx' = <<>>
          /\ event' = ""
          /\ LogJob("")
          /\ UNCHANGED <<jobState, gcodeFile, currentLine, waitingForOk,
                         lastCommandTime, ghostVars>>
     ELSE ProcessJobSend
  /\ UNCHANGED <<currentJobFile, pendingJobFile, totalLines>>
  /\ UNCHANGED <<wsVars, lineBuffer, uptime, fs, strVars>>

\* processJob(): one call from loop()
ProcessJob ==
  /\ IF jobState = JOB_PRE_HOMING
     THEN /\ ProcessJobPreHoming
          /\ tx' = <<>>
          /\ UNCHANGED <<currentLine, waitingForOk, lastCommandTime, ghostVars>>
     ELSE IF jobState = JOB_POST_HOMING
     THEN /\ ProcessJobPostHoming
          /\ tx' = <<>>
          /\ UNCHANGED <<gcodeFile, currentLine, waitingForOk, lastCommandTime, ghostVars>>
     ELSE IF jobState # JOB_RUNNING
     THEN /\ tx' = <<>>
          /\ event' = ""
          /\ LogJob("")
          /\ UNCHANGED <<jobState, gcodeFile, currentLine, waitingForOk,
                         lastCommandTime, ghostVars>>
     ELSE IF waitingForOk
     THEN /\ ProcessJobWaiting
          /\ tx' = <<>>
          /\ UNCHANGED <<currentLine, waitingForOk, lastCommandTime,
                         unacked, progSent, sentAt, inflight>>
     ELSE ProcessJobSend
  /\ UNCHANGED <<currentJobFile, pendingJobFile, totalLines>>
  /\ UNCHANGED <<wsVars, lineBuffer, uptime, fs, strVars>>

\* processGrblResponse(): one call from loop() with the given bytes waiting
\* in the UART receive buffer
ProcessGrblResponse(bytes) ==
  LET st == RxBytes([lineBuffer |-> lineBuffer, waitingForOk |-> waitingForOk,
                     jobState |-> jobState, gcodeFile |-> gcodeFile,
                     unacked |-> unacked, inflight |-> inflight, event |-> "",
                     seen |-> <<>>, log |-> serialLog, busy |-> FALSE],
                    bytes)
  IN  /\ lineBuffer' = st.lineBuffer
      /\ waitingForOk' = st.waitingForOk
      /\ jobState' = st.jobState
      /\ gcodeFile' = st.gcodeFile
      /\ unacked' = st.unacked
      /\ inflight' = st.inflight
      /\ event' = st.event
      /\ tx' = <<>>
      /\ UNCHANGED <<currentJobFile, pendingJobFile, totalLines, currentLine,
                     lastCommandTime, progSent, badClose, sentAt>>
      /\ UNCHANGED <<wsVars, uptime, fs, strVars>>
      /\ LogStep(st.log, st.busy)

\* processGrblResponse(): one call from loop() that finds the next n bytes of
\* the controller's stream in the UART receive buffer; the lines that reach
\* the classification are recorded.
PollChunk(n) ==
  /\ n \in 1..Len(rxStream)
  /\ LET st == RxBytes([lineBuffer |-> lineBuffer, waitingForOk |-> waitingForOk,
                        jobState |-> jobState, gcodeFile |-> gcodeFile,
                        unacked |-> unacked, inflight |-> inflight, event |-> "",
                        seen |-> rxSeen, log |-> serialLog, busy |-> FALSE],
                       SubSeq(rxStream, 1, n))
     IN  /\ lineBuffer' = st.lineBuffer
         /\ waitingForOk' = st.waitingForOk
         /\ jobState' = st.jobState
         /\ gcodeFile' = st.gcodeFile
         /\ unacked' = st.unacked
         /\ inflight' = st.inflight
         /\ event' = st.event
         /\ rxSeen' = st.seen
         /\ LogStep(st.log, st.busy)
  /\ rxStream' = SubSeq(rxStream, n + 1, Len(rxStream))
  /\ tx' = <<>>
  /\ UNCHANGED <<currentJobFile, pendingJobFile, totalLines, currentLine,
                 lastCommandTime, progSent, badClose, sentAt>>
  /\ UNCHANGED <<wsVars, uptime, fs, strIn, strOut, sendRet, track, rxAll, logOn>>

(* ----------------------------- WebSocket ------------------------------ *)

\* A faulty variant of IsRealtime: feed hold is not taken as a realtime byte.
IsRealtimeNoHold(c) == c \in {"?", "~", CTRL_X}

\* processWsBuffer() and wsLaserEvent(): c == '?' || c == '!' || c == '~' || c == 0x18
IsRealtime(c) == c \in {"?", "!", "~", CTRL_X}

\* processWsBuffer(), the loops that forward realtime bytes at the head of
\* the buffer: [buf |-> what is left, out |-> the bytes written]
RECURSIVE WsRealtimeHead(_)
WsRealtimeHead(buf) ==
  IF buf # <<>> /\ IsRealtime(Head(buf))
  THEN LET r == WsRealtimeHead(Tail(buf))
       IN  [buf |-> r.buf, out |-> <<Head(buf)>> \o r.out]
  ELSE [buf |-> buf, out |-> <<>>]

\* processWsBuffer(), the loop that extracts the complete lines
RECURSIVE WsLines(_)
WsLines(buf) ==
  LET lfPos == IndexOf(buf, LF)
  IN  IF lfPos < 0 THEN [buf |-> buf, out |-> <<>>]
      ELSE LET raw  == Substring0(buf, lfPos)
               line == IF EndsWith(raw, <<CR>>) THEN SubSeq(raw, 1, Len(raw) - 1) ELSE raw
               r    == WsLines(SubSeq(buf, lfPos + 2, Len(buf)))
           IN  [buf |-> r.buf, out |-> GrblSendGcodeLine(line) \o r.out]

\* A faulty variant of ProcessWsBuffer: an overflowing buffer is written out
\* but not cleared.
ProcessWsBufferNoClear(buf) ==
  LET a    == WsRealtimeHead(buf)
      b    == WsLines(a.buf)
      c    == WsRealtimeHead(b.buf)
      over == Len(c.buf) > WS_BUFFER_LIMIT
  IN  [buf |-> c.buf,
       out |-> a.out \o b.out \o c.out \o (IF over THEN GrblSendGcodeLine(c.buf) ELSE <<>>)]

\* processWsBuffer()
ProcessWsBuffer(buf) ==
  LET a    == WsRealtimeHead(buf)
      b    == WsLines(a.buf)
      c    == WsRealtimeHead(b.buf)
      over == Len(c.buf) > WS_BUFFER_LIMIT
  IN  [buf |-> IF over THEN <<>> ELSE c.buf,
       out |-> a.out \o b.out \o c.out \o (IF over THEN GrblSendGcodeLine(c.buf) ELSE <<>>)]

\* A faulty variant of WsConnect: the connect resets the controller through
\* grblReset(), which clears the pending flag.
WsConnectClearsPending ==
  /\ wsClients < MaxClients
  /\ wsClients' = wsClients + 1
  /\ wsLaserConnected' = TRUE
  /\ wsInputBuffer' = <<>>
  /\ tx' = <<CTRL_X>>
  /\ event' = "[WS] Client"
  /\ waitingForOk' = FALSE
  /\ unacked' = 0
  /\ inflight' = Enq(inflight, "inj", <<CTRL_X>>)
  /\ UNCHANGED <<jobState, gcodeFile, currentJobFile, pendingJobFile, totalLines,
                 currentLine, lastCommandTime>>
  /\ UNCHANGED <<lineBuffer, uptime, fs, progSent, badClose, sentAt, strVars>>
  /\ LogAt(serialLog \o MsgWsClient \o Decimal(wsClients) \o MsgWsFrom \o ClientIp
                  \o MsgWsSentReset, jobState, TRUE)

\* wsLaserEvent(), WStype_CONNECTED
WsConnect ==
  /\ wsClients < MaxClients
  /\ wsClients' = wsClients + 1
  /\ wsLaserConnected' = TRUE
  /\ wsInputBuffer' = <<>>
  /\ tx' = <<CTRL_X>>
  /\ event' = "[WS] Client"
  /\ unacked' = Outstanding(unacked, <<CTRL_X>>)
  /\ inflight' = Enq(inflight, "inj", <<CTRL_X>>)
  /\ UNCHANGED <<jobVars, lineBuffer, uptime, fs, progSent, badClose, sentAt, strVars>>
  /\ LogAt(serialLog \o MsgWsClient \o Decimal(wsClients) \o MsgWsFrom \o ClientIp
                  \o MsgWsSentReset, jobState, TRUE)

\* wsLaserEvent(), WStype_DISCONNECTED
WsDisconnect ==
  /\ wsClients > 0
  /\ wsClients' = wsClients - 1
  /\ wsLaserConnected' = (wsClients' > 0)
  /\ wsInputBuffer' = <<>>
  /\ tx' = <<>>
  /\ event' = "[WS] Client disconnected"
  /\ UNCHANGED <<jobVars, lineBuffer, uptime, fs, ghostVars, strVars>>
  /\ LogAt(serialLog \o MsgWsClient \o Decimal(wsClients - 1) \o MsgWsDisconnected,
           jobState, wsLaserConnected)

\* wsLaserEvent(), WStype_TEXT with a payload of length > 0
WsText(payload) ==
  /\ wsClients > 0
  /\ Len(payload) > 0
  /\ LET r == ProcessWsBuffer(wsInputBuffer \o payload)
     IN  /\ wsInputBuffer' = r.buf
         /\ tx' = r.out
         /\ unacked' = Outstanding(unacked, r.out)
         /\ inflight' = Enq(inflight, "inj", r.out)
  /\ event' = ""
  /\ UNCHANGED <<wsLaserConnected, wsClients>>
  /\ UNCHANGED <<jobVars, lineBuffer, uptime, fs, progSent, badClose, sentAt, strVars>>
  /\ NoLog

\* wsLaserEvent(), WStype_BIN with a payload of length > 0: the realtime
\* bytes of the frame are written at once, the other bytes are appended to
\* the buffer, then the buffer is processed.
WsBin(payload) ==
  /\ wsClients > 0
  /\ Len(payload) > 0
  /\ LET direct == SelectSeq(payload, IsRealtime)
         rest   == SelectSeq(payload, LAMBDA c : ~IsRealtime(c))
         r      == ProcessWsBuffer(wsInputBuffer \o rest)
     IN  /\ wsInputBuffer' = r.buf
         /\ tx' = direct \o r.out
         /\ unacked' = Outstanding(unacked, direct \o r.out)
         /\ inflight' = Enq(inflight, "inj", direct \o r.out)
  /\ event' = ""
  /\ UNCHANGED <<wsLaserConnected, wsClients>>
  /\ UNCHANGED <<jobVars, lineBuffer, uptime, fs, progSent, badClose, sentAt, strVars>>
  /\ NoLog

\* wsLaserEvent(), WStype_ERROR for client num
WsError(num) ==
  /\ LogAt(serialLog \o MsgWsError \o Decimal(num), jobState, wsLaserConnected)
  /\ tx' = <<>>
  /\ event' = ""
  /\ UNCHANGED <<jobVars, wsVars, lineBuffer, uptime, fs, ghostVars, strVars>>

(* ------------------------------- HTTP --------------------------------- *)

\* handleGrbl() with cmd = unlock, home, reset or gcode (g is the raw line)
HandleGrbl(cmd, g) ==
  /\ cmd \in {"unlock", "home", "reset", "gcode"}
  /\ cmd = "gcode" => Len(g) > 0
  /\ tx' = CASE cmd = "unlock" -> Println(UnlockCmd)
             [] cmd = "home"   -> Println(HomeCmd)
             [] cmd = "reset"  -> <<CTRL_X>>
             [] cmd = "gcode"  -> Println(g)
  /\ waitingForOk' = IF cmd = "reset" THEN FALSE ELSE waitingForOk
  /\ unacked' = IF cmd = "reset" THEN 0 ELSE unacked
  /\ inflight' = Enq(inflight, "inj", tx')
  /\ event' = ""
  /\ UNCHANGED <<jobState, gcodeFile, currentJobFile, pendingJobFile, totalLines,
                 currentLine, lastCommandTime, progSent, badClose, sentAt>>
  /\ UNCHANGED <<wsVars, lineBuffer, uptime, fs, strVars>>
  /\ LogAt(AppendToLog(serialLog, jobState,
                       CASE cmd = "unlock" -> MsgUnlock
                         [] cmd = "home"   -> MsgHome
                         [] cmd = "reset"  -> MsgReset
                         [] cmd = "gcode"  -> MsgGcode \o g),
           jobState, wsLaserConnected)

\* handleDelete(): SPIFFS.remove() of the named file; nothing changes when
\* there is no such file.
HandleDelete(file) ==
  /\ fs' = [p \in DOMAIN fs \ {Path(file)} |-> fs[p]]
  /\ tx' = <<>>
  /\ event' = ""
  /\ UNCHANGED <<jobVars, wsVars, lineBuffer, uptime, ghostVars, strVars>>
  /\ NoLog

\* handleGrbl() with cmd = clearlog
HandleGrblClearLog ==
  /\ LogStep(<<>>, FALSE)
  /\ tx' = <<>>
  /\ event' = ""
  /\ UNCHANGED <<jobVars, wsVars, lineBuffer, uptime, fs, ghostVars, strVars>>

(* ------------------------------- clock -------------------------------- *)

\* Time passes between two steps of loop().
AdvanceTime ==
  /\ uptime + TickStep <= Horizon
  /\ uptime' = uptime + TickStep
  /\ tx' = <<>>
  /\ event' = ""
  /\ UNCHANGED <<jobVars, wsVars, lineBuffer, fs, ghostVars, strVars>>
  /\ NoLog

(* --------------------------- specifications --------------------------- *)

InitCommon ==
  /\ jobState = JOB_IDLE
  /\ gcodeFile = ClosedFile
  /\ currentJobFile = <<>>
  /\ pendingJobFile = <<>>
  /\ totalLines = 0
  /\ currentLine = 0
  /\ waitingForOk = FALSE
  /\ lastCommandTime = 0
  /\ wsInputBuffer = <<>>
  /\ wsLaserConnected = FALSE
  /\ wsClients = 0
  /\ lineBuffer = <<>>
  /\ tx = <<>>
  /\ event = ""
  /\ unacked = 0
  /\ progSent = <<>>
  /\ badClose = FALSE
  /\ sentAt = 0
  /\ inflight = <<>>
  /\ strOut = <<>>
  /\ sendRet = "none"
  /\ rxSeen = <<>>
  /\ logBusy = FALSE

\* The bridge after setup(), with one program file stored.
Init ==
  /\ InitCommon
  /\ uptime = 0
  /\ fs = [p \in {PathB} |-> FileB]
  /\ strIn = <<>>
  /\ track = FALSE
  /\ logOn = FALSE
  /\ serialLog = <<>>
  /\ rxAll = <<>>
  /\ rxStream = <<>>

CrLf(s) == s \o <<CR, LF>>

\* What the controller sends in one poll of the main specification.
ControllerLines ==
  {CrLf(OkLine), CrLf(ErrorPrefix \o <<"1">>), CrLf(AlarmPrefix \o <<"1">>)}

\* What the WebSocket client sends in one text frame of the main specification.
WsPayloads == {<<"G", LF>>, <<"!">>}

Next ==
  \/ \E f \in FileNames : StartJob(f)
  \/ PauseJob
  \/ ResumeJob
  \/ StopJob
  \/ ProcessJob
  \/ \E bytes \in ControllerLines : ProcessGrblResponse(bytes)
  \/ WsConnect
  \/ WsDisconnect
  \/ \E payload \in WsPayloads : WsText(payload)
  \/ \E cmd \in {"home", "reset"} : HandleGrbl(cmd, <<>>)
  \/ AdvanceTime

Spec == Init /\ [][Next]_vars


\* The program files of the file-streaming specification: every text of at
\* most MaxFileLen characters over FileAlphabet, and the example program.
ProgramFiles == SeqsUpTo(FileAlphabet, MaxFileLen) \cup {ScenarioA}

\* The bridge after setup() with any one of the program files stored.
InitFile ==
  /\ InitCommon
  /\ uptime = 0
  /\ fs \in {[p \in {PathB} |-> c] : c \in ProgramFiles}
  /\ strIn = <<>>
  /\ track = FALSE
  /\ logOn = FALSE
  /\ serialLog = <<>>
  /\ rxAll = <<>>
  /\ rxStream = <<>>

\* A job on the stored file with a controller that answers ok or error:,
\* paused, resumed, stopped and restarted at any point.
NextFile ==
  \/ StartJob(NameB)
  \/ PauseJob
  \/ ResumeJob
  \/ StopJob
  \/ ProcessJob
  \/ \E bytes \in {CrLf(OkLine), CrLf(ErrorPrefix \o <<"1">>)} : ProcessGrblResponse(bytes)

SpecFile == InitFile /\ [][NextFile]_vars

\* Any line of at most MaxLineLen characters over LineAlphabet, not yet stripped.
InitStrip ==
  /\ InitCommon
  /\ uptime = 0
  /\ fs = [p \in {PathB} |-> FileB]
  /\ strIn \in SeqsUpTo(LineAlphabet, MaxLineLen)
  /\ track = FALSE
  /\ logOn = FALSE
  /\ serialLog = <<>>
  /\ rxAll = <<>>
  /\ rxStream = <<>>

\* Apply the inline-comment stripping of processJob() to the line, and then
\* to its own result.
StripApply ==
  /\ Len(strOut) < 2
  /\ strOut' = Append(strOut, StripInline(IF strOut = <<>> THEN strIn
                                          ELSE strOut[Len(strOut)]))
  /\ UNCHANGED <<jobVars, wsVars, lineBuffer, uptime, fs, tx, event, ghostVars, strIn,
                 sendRet, track, rxAll, rxStream, rxSeen, logOn, logVars>>

SpecStrip == InitStrip /\ [][StripApply]_vars


(* ------------------- what the claims speak about ---------------------- *)

\* The lines of a text: the pieces between LF characters (a piece after the
\* last LF counts only if it is not empty).
RECURSIVE SplitLines(_, _)
SplitLines(s, cur) ==
  IF s = <<>> THEN (IF cur = <<>> THEN <<>> ELSE <<cur>>)
  ELSE IF Head(s) = LF THEN <<cur>> \o SplitLines(Tail(s), <<>>)
  ELSE SplitLines(Tail(s), Append(cur, Head(s)))

\* A line that is non-empty after trimming and begins with neither ';' nor '('.
IsCommandLine(l) == Trim(l) # <<>> /\ Trim(l)[1] \notin {";", "("}

\* A trimmed line cut at its first ';' or '(' after position 0, and trimmed.
CutAtComment(l) ==
  LET t    == Trim(l)
      cuts == {i \in 2..Len(t) : t[i] \in {";", "("}}
  IN  IF cuts = {} THEN t
      ELSE Trim(SubSeq(t, 1, (CHOOSE i \in cuts : \A j \in cuts : i <= j) - 1))

RECURSIVE CommandsOf(_)
CommandsOf(ls) ==
  IF ls = <<>> THEN <<>>
  ELSE (IF IsCommandLine(Head(ls)) THEN <<CutAtComment(Head(ls))>> ELSE <<>>)
       \o CommandsOf(Tail(ls))

\* The commands a program text stands for, in file order.
ExpectedCommands(content) == CommandsOf(SplitLines(content, <<>>))

\* The program text of the job that was started last.
JobProgram == IF pendingJobFile \in DOMAIN fs THEN fs[pendingJobFile] ELSE <<>>

\* Milliseconds that really passed since the job last wrote a command.
SinceSend == uptime - sentAt

(* ------------------------------ claims -------------------------------- *)

\* C1: at most one non-realtime command is unacknowledged at any time: after
\* a command line (program line, $H or interactive line) has been written to
\* the serial link, no second one is written before an ok or error: response
\* (or a soft reset) has come in between.
C1_SingleFlight == unacked <= 1

\* C2: when the job has read its file to the end (PostHoming, and Complete
\* after it), the number of program commands it sent is totalLines, the
\* count countLines() computed at the start.
C2_LineCountFidelity ==
  jobState \in {JOB_POST_HOMING, JOB_COMPLETE} =>
    /\ currentLine = totalLines
    /\ Len(progSent) = totalLines
    /\ totalLines = Len(ExpectedCommands(JobProgram))

\* C2 witness: a job on a file with comments, blank lines and commands is complete.
C2_Witness ==
  /\ jobState = JOB_COMPLETE
  /\ totalLines = 2
  /\ Len(SplitLines(JobProgram, <<>>)) > 2

\* C3: the job sends, in file order and each exactly once, the lines that are
\* non-empty after trimming and begin with neither ';' nor '(', each cut at
\* its first ';' or '(' after position 0 and trimmed again; nothing else.
C3_EligibleLinesInOrder ==
  /\ jobState \in {JOB_RUNNING, JOB_PAUSED} =>
       /\ Len(progSent) <= Len(ExpectedCommands(JobProgram))
       /\ progSent = SubSeq(ExpectedCommands(JobProgram), 1, Len(progSent))
  /\ jobState \in {JOB_POST_HOMING, JOB_COMPLETE} =>
       progSent = ExpectedCommands(JobProgram)

\* C3 witness: the example program was streamed as G0 X0, G1 X10, M5.
C3_Witness ==
  /\ JobProgram = ScenarioA
  /\ jobState = JOB_COMPLETE
  /\ totalLines = 3
  /\ progSent = << <<"G", "0", " ", "X", "0">>,
                   <<"G", "1", " ", "X", "1", "0">>,
                   <<"M", "5">> >>

\* C4: an ALARM: line received while the job is in PreHoming, Running or
\* PostHoming moves the job to Error and leaves no program file open.
C4_AlarmStopsActiveJob ==
  [][(ProcessGrblResponse(CrLf(AlarmPrefix \o <<"1">>)) /\ JobActive)
       => (jobState' = JOB_ERROR /\ ~gcodeFile'.open)]_vars

\* C5: a Running job whose pending command has been unanswered for more than
\* COMMAND_TIMEOUT goes to Error with the file closed on the next job tick,
\* and close() is never called on a handle that is not open.
C5_CommandTimeout ==
  /\ [](~badClose)
  /\ [][(ProcessJob /\ jobState = JOB_RUNNING /\ waitingForOk
           /\ SinceSend > COMMAND_TIMEOUT)
          => (jobState' = JOB_ERROR /\ ~gcodeFile'.open)]_vars

\* C5 witness: the command timeout has just fired and closed the file.
C5_Witness ==
  /\ event = "Timeout!"
  /\ jobState = JOB_ERROR
  /\ ~gcodeFile.open
  /\ SinceSend > COMMAND_TIMEOUT
  /\ currentLine > 0

\* C6: a timeout never fires early: when the job tick reports a command or
\* homing timeout, at least the bound has passed since the job wrote the
\* command it was waiting on.
C6_NoEarlyTimeout ==
  /\ event = "Timeout!" => SinceSend >= COMMAND_TIMEOUT
  /\ event = "Homing Timeout!" => SinceSend >= HOMING_TIMEOUT
  /\ event = "Post-Homing Timeout!" => SinceSend >= HOMING_TIMEOUT

\* C6 witness: the pre-homing timeout has just fired.
C6_Witness ==
  /\ event = "Homing Timeout!"
  /\ jobState = JOB_ERROR
  /\ SinceSend >= HOMING_TIMEOUT

\* C7: a job tick in PostHoming never moves the job to Error, and a tick
\* after more than HOMING_TIMEOUT without acknowledgment makes it Complete.
C7_PostHomingLenient ==
  /\ [][(ProcessJob /\ jobState = JOB_POST_HOMING)
          => jobState' \in {JOB_POST_HOMING, JOB_COMPLETE}]_vars
  /\ [][(ProcessJob /\ jobState = JOB_POST_HOMING /\ waitingForOk
           /\ SinceSend > HOMING_TIMEOUT)
          => jobState' = JOB_COMPLETE]_vars

\* C7 witness: the post-homing timed out and the job is Complete.
C7_Witness ==
  /\ event = "Post-Homing Timeout!"
  /\ jobState = JOB_COMPLETE
  /\ waitingForOk

\* C8 as claimed: start on a file that does not exist sets the job state to
\* Error, writes nothing and leaves the pending flag, the send time and the
\* cursor unchanged.
C8_MissingFileAlwaysError ==
  [][StartJob(NameMissing)
       => /\ jobState' = JOB_ERROR
          /\ tx' = <<>>
          /\ UNCHANGED <<waitingForOk, lastCommandTime, currentLine, gcodeFile>>]_vars

\* C8 as amended: start on a file that does not exist writes nothing and
\* leaves the pending flag, the send time and the cursor unchanged; it sets
\* the job state to Error unless the job is in PreHoming, Running or
\* PostHoming, where the request is ignored and the state stays as it is.
C8_MissingFileError ==
  [][StartJob(NameMissing)
       => /\ tx' = <<>>
          /\ UNCHANGED <<waitingForOk, lastCommandTime, currentLine, totalLines, gcodeFile>>
          /\ jobState' = IF JobActive THEN jobState ELSE JOB_ERROR]_vars

\* C8 witness: a paused job with a command pending was hit by a start on a
\* missing file.
C8_Witness ==
  /\ event = "ERR: File not found"
  /\ jobState = JOB_ERROR
  /\ tx = <<>>
  /\ waitingForOk
  /\ currentLine > 0

\* C9: pausing and resuming change neither currentLine nor the read position,
\* no program line is sent while Paused, and what a job has sent is always
\* the first currentLine commands of its program, however often it was paused.
C9_PauseResumeKeepsCursor ==
  /\ [](jobState \in {JOB_RUNNING, JOB_PAUSED} =>
          /\ Len(progSent) = currentLine
          /\ currentLine <= Len(ExpectedCommands(JobProgram))
          /\ progSent = SubSeq(ExpectedCommands(JobProgram), 1, currentLine))
  /\ [][(PauseJob \/ ResumeJob)
          => UNCHANGED <<currentLine, gcodeFile, progSent>>]_vars
  /\ [][jobState = JOB_PAUSED
          => (progSent' = progSent \/ jobState' \in {JOB_IDLE, JOB_PRE_HOMING})]_vars

\* C9 witness: a job resumed in the middle of its program has sent its last line.
C9_Witness ==
  /\ jobState = JOB_RUNNING
  /\ tx = <<"~">>
  /\ currentLine = 1
  /\ totalLines = 2

\* C10: stripping inline comments from an already stripped line gives the
\* same line.
C10_StripIdempotent == Len(strOut) = 2 => strOut[2] = strOut[1]

\* C10 witness: a line that stripping shortened to a command was stripped again.
C10_Witness ==
  /\ Len(strOut) = 2
  /\ strOut[1] # strIn
  /\ strOut[1] # <<>>

(* ------------------------------- C11 ---------------------------------- *)

\* C11: from every job state a stop request leaves the job Idle with the
\* program file closed, the pending flag cleared, currentLine and totalLines
\* at 0 and the soft-reset byte 0x18 written to the controller; and while the
\* job is Idle no step writes a program line: no program line has been
\* recorded for a job, and every write is either none, a command of the
\* interactive or HTTP path, until a start request leaves Idle.
C11_StopResetsJob ==
  /\ [][StopJob => /\ jobState' = JOB_IDLE
                   /\ ~gcodeFile'.open
                   /\ ~waitingForOk'
                   /\ currentLine' = 0
                   /\ totalLines' = 0
                   /\ tx' = <<CTRL_X>>]_vars
  /\ [][jobState = JOB_IDLE =>
          /\ progSent' = <<>>
          /\ (ProcessJob => tx' = <<>>)
          /\ (jobState' # JOB_IDLE => \E f \in FileNames : StartJob(f))]_vars

\* A job that sent a command after boot time has been stopped: the step just
\* taken wrote the soft reset and the job is Idle.
C11_Witness ==
  /\ jobState = JOB_IDLE
  /\ tx = <<CTRL_X>>
  /\ sentAt > 0
  /\ wsClients = 0

(* ------------------------------- C12 ---------------------------------- *)

SendLines == {<<"G">>, HomeCmd}

\* A direct call of grblSendLine(line), whatever the pending flag is: the
\* caller takes what the function wrote, the flag and time it set, and the
\* value it returned.
CallGrblSendLine(line) ==
  LET sent == GrblSendLine(line)
  IN  /\ tx' = sent.out
      /\ waitingForOk' = sent.waitingForOk
      /\ lastCommandTime' = sent.lastCommandTime
      /\ sendRet' = sent.ret
      /\ event' = ""
      /\ unacked' = Outstanding(unacked, sent.out)
      /\ inflight' = Enq(inflight, "job", sent.out)
      /\ sentAt' = uptime
      /\ UNCHANGED <<jobState, gcodeFile, currentJobFile, pendingJobFile, totalLines,
                     currentLine, progSent, badClose>>
      /\ UNCHANGED <<wsVars, lineBuffer, uptime, fs, strIn, strOut, track,
                     rxAll, rxStream, rxSeen, logOn>>
      /\ NoLog

\* grblSendLine() called at any time, with a controller that answers ok or
\* error: and a job that can be started and stopped in between.
NextSend ==
  \/ \E line \in SendLines : CallGrblSendLine(line)
  \/ \E bytes \in {CrLf(OkLine), CrLf(ErrorPrefix \o <<"1">>)} : ProcessGrblResponse(bytes)
  \/ StartJob(NameB)
  \/ StopJob
  \/ AdvanceTime

SpecSend == Init /\ [][NextSend]_vars

\* C13: grblSendLine succeeds only when no command is pending; a call made
\* while a command is pending returns false and has no side effects: nothing
\* is written, and the pending flag and the send time are as before.
C13_SendLineGate ==
  [][\A line \in SendLines :
       CallGrblSendLine(line) =>
         /\ (sendRet' = TRUE => ~waitingForOk)
         /\ (waitingForOk => /\ sendRet' = FALSE
                             /\ tx' = <<>>
                             /\ UNCHANGED <<waitingForOk, lastCommandTime>>)]_vars

(* ------------------------------- C14 ---------------------------------- *)

\* C14: an interactive line that arrives while a command is pending is
\* dropped: the text frame that carries it writes no command line to the
\* controller and leaves nothing of it in the input buffer.
C14_InteractiveLineDropped ==
  [][\A payload \in WsPayloads :
       (WsText(payload) /\ waitingForOk /\ CountChar(payload, LF) > 0) =>
         /\ CountChar(tx', LF) = 0
         /\ wsInputBuffer' = wsInputBuffer]_vars

(* ------------------------------- C15 ---------------------------------- *)

\* C15: every command line written to the controller, whatever its origin
\* (a program line or $H of the job, a line of the interactive path, $X, $H
\* or raw G-code of the HTTP path), goes through the gate: in the state right
\* after a step that wrote a command line the pending flag is true and the
\* send time is the time of that write.
C15_EveryWriteGated ==
  CountChar(tx, LF) > 0 => (waitingForOk /\ lastCommandTime = Millis)

(* ------------------------------- C16 ---------------------------------- *)

InitCorr ==
  /\ InitCommon
  /\ uptime = 0
  /\ fs = [p \in {PathB} |-> FileB]
  /\ strIn = <<>>
  /\ track = TRUE
  /\ logOn = FALSE
  /\ serialLog = <<>>
  /\ rxAll = <<>>
  /\ rxStream = <<>>

\* A job run while the interactive peer and the HTTP path inject command
\* lines, with a controller that answers the command lines it has received
\* in the order it received them, one ok or error: line per command line.
\* The peers send a line only while fewer than MaxInflight lines are unanswered.
NextCorr ==
  \/ Len(inflight) < MaxInflight /\ StartJob(NameB)
  \/ StopJob
  \/ ProcessJob
  \/ /\ inflight # <<>>
     /\ \E bytes \in {CrLf(OkLine), CrLf(ErrorPrefix \o <<"1">>)} : ProcessGrblResponse(bytes)
  \/ WsConnect
  \/ Len(inflight) < MaxInflight /\ WsText(<<"G", LF>>)
  \/ Len(inflight) < MaxInflight /\ HandleGrbl("home", <<>>)
  \/ AdvanceTime

SpecCorr == InitCorr /\ [][NextCorr]_vars

\* C17: responses correlate by order. Whenever an ok or error: line clears
\* the pending flag of a job that is waiting (PreHoming, Running or
\* PostHoming), the command line the controller answers with it, the oldest
\* unanswered one, is the job's own most recently sent command, never a
\* command injected by the interactive or the HTTP path.
C17_ResponsesCorrelate ==
  [][\A bytes \in {CrLf(OkLine), CrLf(ErrorPrefix \o <<"1">>)} :
       (/\ ProcessGrblResponse(bytes)
        /\ inflight # <<>>
        /\ jobState \in {JOB_PRE_HOMING, JOB_RUNNING, JOB_POST_HOMING}
        /\ waitingForOk /\ ~waitingForOk') =>
         /\ Head(inflight) = "job"
         /\ \A i \in 2..Len(inflight) : inflight[i] # "job"]_vars

(* ------------------------------- C18 ---------------------------------- *)

\* C18: an error: line clears the pending flag and never changes the job:
\* jobState, currentLine and the open file are the same before and after it,
\* and the next step of a Running job sends the next command of the program
\* (when the program has one left) and stays Running.
C18_ErrorLineKeepsJob ==
  /\ [][ProcessGrblResponse(CrLf(ErrorPrefix \o <<"1">>)) =>
          /\ ~waitingForOk'
          /\ UNCHANGED <<jobState, currentLine, gcodeFile>>]_vars
  /\ [][(/\ ProcessJob
         /\ event = "GRBL Error"
         /\ jobState = JOB_RUNNING
         /\ NextCommand(JobProgram, gcodeFile.pos).found) =>
          /\ tx' = Println(NextCommand(JobProgram, gcodeFile.pos).line)
          /\ currentLine' = currentLine + 1
          /\ jobState' = JOB_RUNNING]_vars

\* The controller has just answered a program line of a Running job with
\* error:, and the program has a further command.
C18_Witness ==
  /\ event = "GRBL Error"
  /\ jobState = JOB_RUNNING
  /\ currentLine >= 1
  /\ ~waitingForOk
  /\ NextCommand(JobProgram, gcodeFile.pos).found

(* ------------------------------- C19 ---------------------------------- *)

\* The frames of the interactive-input specification: each realtime byte on
\* its own, a realtime byte before and after a command letter, two realtime
\* bytes, and a command line whole and in pieces.
WsFrames ==
  {<<"?">>, <<"!">>, <<"~">>, <<CTRL_X>>, <<"!", "G">>, <<"G", "!">>,
   <<CTRL_X, "~">>, <<"G">>, <<LF>>, <<"G", LF>>}

\* The interactive peer sends text and binary frames at any point of a job
\* that is started, stepped, answered and timed.
NextWs ==
  \/ WsConnect
  \/ WsDisconnect
  \/ \E payload \in WsFrames :
       Len(wsInputBuffer) + Len(payload) <= MaxWsBuffer /\ WsText(payload)
  \/ \E payload \in WsFrames :
       Len(wsInputBuffer) + Len(payload) <= MaxWsBuffer /\ WsBin(payload)
  \/ StartJob(NameB)
  \/ ProcessJob
  \/ ProcessGrblResponse(CrLf(OkLine))
  \/ AdvanceTime

SpecWs == Init /\ [][NextWs]_vars

\* The realtime bytes of the controller's protocol: status query, feed hold,
\* cycle start, soft reset.
RealtimeBytes == {"?", "!", "~", CTRL_X}

\* C19: a realtime byte that the interactive peer leaves at the head of the
\* input buffer (text frame), or sends anywhere in a binary frame, is written
\* to the controller in the same step, before anything else, whether or not
\* a command is pending and whatever the job state; and a frame of the
\* interactive peer leaves the pending flag, the send time and the job state
\* as they were.
C19_RealtimeForwarded ==
  [][\A payload \in WsFrames :
       /\ (Head(wsInputBuffer \o payload) \in RealtimeBytes /\ WsText(payload)) =>
            /\ tx' # <<>>
            /\ Head(tx') = Head(wsInputBuffer \o payload)
            /\ UNCHANGED <<waitingForOk, lastCommandTime, jobState>>
       /\ ((\E i \in DOMAIN payload : payload[i] \in RealtimeBytes) /\ WsBin(payload)) =>
            /\ LET rt == SelectSeq(payload, LAMBDA c : c \in RealtimeBytes)
               IN  Len(tx') >= Len(rt) /\ SubSeq(tx', 1, Len(rt)) = rt
            /\ UNCHANGED <<waitingForOk, lastCommandTime, jobState>>]_vars

\* A feed hold from the interactive peer has just been written while a
\* Running job has a command pending.
C19_Witness ==
  /\ tx = <<"!">>
  /\ wsClients > 0
  /\ jobState = JOB_RUNNING
  /\ waitingForOk

(* ------------------------------- C20 ---------------------------------- *)

\* C20 as stated: currentLine never decreases while the job stays Running,
\* and over any sequence of operations it is set back, and then to 0, only by
\* the start of a new job.
C20_CursorResetOnlyByStart ==
  [][/\ (jobState = JOB_RUNNING /\ jobState' = JOB_RUNNING) => currentLine' >= currentLine
     /\ currentLine' < currentLine =>
          /\ currentLine' = 0
          /\ \E f \in FileNames : StartJob(f) /\ jobState' = JOB_PRE_HOMING]_vars

\* C20, amended: currentLine never decreases while the job stays Running,
\* and it is set back, and then to 0, only by the start of a new job or by a
\* stop request.
C20_CursorResetByStartOrStop ==
  [][/\ (jobState = JOB_RUNNING /\ jobState' = JOB_RUNNING) => currentLine' >= currentLine
     /\ currentLine' < currentLine =>
          /\ currentLine' = 0
          /\ \/ StopJob
             \/ \E f \in FileNames : StartJob(f) /\ jobState' = JOB_PRE_HOMING]_vars

\* A new job has just been started over a paused one that had read part of
\* its program: the cursor is back at 0.
C20_Witness ==
  /\ jobState = JOB_PRE_HOMING
  /\ currentLine = 0
  /\ gcodeFile.pos > 0
  /\ sentAt = uptime
  /\ tx = Println(HomeCmd)

(* ------------------------------- C21 ---------------------------------- *)

\* C21: when the job is in PreHoming and more than HOMING_TIMEOUT has passed
\* with the homing command still unacknowledged, the next job tick moves the
\* job to Error, and after that step no program file is open.
C21_PreHomingTimeout ==
  [][(ProcessJob /\ jobState = JOB_PRE_HOMING /\ waitingForOk
        /\ SinceSend > HOMING_TIMEOUT)
       => (jobState' = JOB_ERROR /\ ~gcodeFile'.open)]_vars

(* ------------------------------- C22 ---------------------------------- *)

\* A job that is started, stepped, answered, stopped and timed while the
\* stored file can be deleted over HTTP. The file is deleted only while the
\* job does not hold it open.
NextDel ==
  \/ \E f \in FileNames : StartJob(f)
  \/ StopJob
  \/ ProcessJob
  \/ \E bytes \in {CrLf(OkLine), CrLf(ErrorPrefix \o <<"1">>)} : ProcessGrblResponse(bytes)
  \/ ~gcodeFile.open /\ HandleDelete(NameB)
  \/ AdvanceTime

SpecDel == Init /\ [][NextDel]_vars

\* C22: when the pre-homing command has been acknowledged but the program
\* file cannot be opened, the job tick makes the job state Error, writes
\* nothing and sends no program line; and the job never becomes Running:
\* Error is left only for Idle or by the start of another job.
C22_OpenFailure ==
  /\ [][(ProcessJob /\ jobState = JOB_PRE_HOMING /\ ~waitingForOk
           /\ pendingJobFile \notin DOMAIN fs)
          => /\ jobState' = JOB_ERROR
             /\ tx' = <<>>
             /\ progSent' = <<>>
             /\ ~gcodeFile'.open]_vars
  /\ [][jobState = JOB_ERROR =>
          \/ jobState' = JOB_ERROR
          \/ StopJob
          \/ \E f \in FileNames : StartJob(f)]_vars

\* The file was deleted during the pre-homing: the tick after the ok could
\* not open it and the job is in Error with nothing sent.
C22_Witness ==
  /\ event = "ERR: Cannot open file"
  /\ jobState = JOB_ERROR
  /\ PathB \notin DOMAIN fs
  /\ progSent = <<>>

(* ------------------------------- C23 ---------------------------------- *)

\* C23: an accepted start on a stored file moves the job to PreHoming, sets
\* currentLine to 0, writes the homing command $H and nothing else, sets the
\* pending flag and records the time of the write as the send time; and no
\* program line of the job is written before that: none has been sent when
\* the start returns, nor at any time in PreHoming.
C23_StartHomesFirst ==
  /\ [][\A f \in FileNames :
          (StartJob(f) /\ Path(f) \in DOMAIN fs
             /\ jobState \notin {JOB_PRE_HOMING, JOB_RUNNING, JOB_POST_HOMING}) =>
            /\ jobState' = JOB_PRE_HOMING
            /\ currentLine' = 0
            /\ tx' = Println(HomeCmd)
            /\ waitingForOk'
            /\ lastCommandTime' = Millis
            /\ progSent' = <<>>]_vars
  /\ [](jobState = JOB_PRE_HOMING => progSent = <<>>)

\* A job has just been started some time after boot: $H is on the link, the
\* flag is set and the send time is the present.
C23_Witness ==
  /\ jobState = JOB_PRE_HOMING
  /\ event = ">> $H (Pre-Homing)"
  /\ uptime > 0
  /\ lastCommandTime = Millis
  /\ waitingForOk
  /\ ~gcodeFile.open

(* ------------------------------- C24 ---------------------------------- *)

\* C24: a job tick never sends while a command is pending: with the pending
\* flag set it writes nothing (in Running it only checks the command
\* timeout), and with the flag clear it writes at most one command, which is
\* the next program line of a Running job or the post-homing $H.
C24_TickSendsAtMostOne ==
  [][ProcessJob =>
       /\ waitingForOk => (tx' = <<>> /\ UNCHANGED <<currentLine, progSent>>)
       /\ CountChar(tx', LF) <= 1
       /\ tx' # <<>> =>
            /\ jobState = JOB_RUNNING
            /\ \/ /\ jobState' = JOB_RUNNING
                  /\ progSent' # <<>>
                  /\ progSent' = Append(progSent, progSent'[Len(progSent')])
                  /\ tx' = Println(progSent'[Len(progSent')])
               \/ /\ jobState' = JOB_POST_HOMING
                  /\ progSent' = progSent
                  /\ tx' = Println(HomeCmd)]_vars

\* A tick of a Running job found its command still pending, short of the
\* timeout, and wrote nothing.
C24_Witness ==
  /\ jobState = JOB_RUNNING
  /\ waitingForOk
  /\ currentLine >= 1
  /\ tx = <<>>
  /\ event = ""
  /\ uptime > sentAt

(* ------------------------------- C25 ---------------------------------- *)

\* C25: when a Running tick finds the program exhausted, the file is closed,
\* the job becomes PostHoming and a second $H is written with the pending
\* flag set; at that point every eligible line of the file has been sent,
\* and the controller has answered every command the job wrote: none of the
\* job's command lines is still unanswered.
C25_PostHomingAfterLastAck ==
  [][(ProcessJob /\ jobState = JOB_RUNNING /\ jobState' = JOB_POST_HOMING) =>
       /\ ~gcodeFile'.open
       /\ tx' = Println(HomeCmd)
       /\ waitingForOk'
       /\ progSent = ExpectedCommands(JobProgram)
       /\ \A i \in DOMAIN inflight : inflight[i] # "job"]_vars

(* ------------------------------- C26 ---------------------------------- *)

\* C26: pause takes effect only in Running, where it writes exactly the
\* feed-hold byte '!' and makes the job Paused; resume takes effect only in
\* Paused, where it writes exactly the cycle-resume byte '~' and makes the
\* job Running; in any other state each writes nothing and leaves the job
\* state as it is. Both leave the pending flag, the send time, currentLine,
\* totalLines and the open file unchanged.
C26_PauseResumeFrame ==
  /\ [][PauseJob =>
          /\ IF jobState = JOB_RUNNING
             THEN tx' = <<"!">> /\ jobState' = JOB_PAUSED
             ELSE tx' = <<>> /\ jobState' = jobState
          /\ UNCHANGED <<waitingForOk, lastCommandTime, currentLine, totalLines,
                         gcodeFile>>]_vars
  /\ [][ResumeJob =>
          /\ IF jobState = JOB_PAUSED
             THEN tx' = <<"~">> /\ jobState' = JOB_RUNNING
             ELSE tx' = <<>> /\ jobState' = jobState
          /\ UNCHANGED <<waitingForOk, lastCommandTime, currentLine, totalLines,
                         gcodeFile>>]_vars

\* A job has just been paused with a program line still pending.
C26_Witness ==
  /\ jobState = JOB_PAUSED
  /\ tx = <<"!">>
  /\ waitingForOk
  /\ currentLine >= 1
  /\ gcodeFile.open

(* ------------------------------- C27 ---------------------------------- *)

\* What the controller sends in one poll of the controller-line
\* specification: the three responses, the banner, a status report, two
\* lines that contain ok without being ok, an ok with blanks around it, a
\* blank line and an empty line.
RxLines ==
  ControllerLines \cup
  {CrLf(GrblPrefix \o <<" ", "1">>), CrLf(<<"<", "I", ">">>),
   CrLf(OkLine \o <<"2">>), CrLf(<<"[">> \o OkLine \o <<"]">>),
   CrLf(<<" ">> \o OkLine \o <<" ">>), CrLf(<<" ">>), <<LF>>}

\* All handlers of the main specification, with the controller sending any
\* of these lines.
NextRx ==
  \/ \E f \in FileNames : StartJob(f)
  \/ PauseJob
  \/ ResumeJob
  \/ StopJob
  \/ ProcessJob
  \/ \E bytes \in RxLines : ProcessGrblResponse(bytes)
  \/ WsConnect
  \/ WsDisconnect
  \/ \E payload \in WsPayloads : WsText(payload)
  \/ \E cmd \in {"home", "reset"} : HandleGrbl(cmd, <<>>)
  \/ AdvanceTime

SpecRx == Init /\ [][NextRx]_vars

\* C27: Error and Complete are terminal for everything but stop and start:
\* a step taken in Error or Complete that is neither a stop nor a start
\* request (a job tick, any controller line, an interactive payload, pause,
\* resume, an HTTP command) leaves the job state as it is and sends no
\* program line, and a job tick writes nothing at all.
C27_TerminalStates ==
  [][(jobState \in {JOB_ERROR, JOB_COMPLETE}) =>
       \/ /\ jobState' = jobState
          /\ progSent' = progSent
          /\ (ProcessJob => tx' = <<>>)
       \/ StopJob
       \/ \E f \in FileNames : StartJob(f)]_vars

\* An ALARM: line has just arrived for a job that is Complete.
C27_Witness ==
  /\ jobState = JOB_COMPLETE
  /\ event = "GRBL Alarm"
  /\ progSent # <<>>

(* ------------------------------- C28 ---------------------------------- *)

\* The text of a controller line as it is classified: without CR and LF and
\* without the blanks around it.
LineText(bytes) == Trim(SelectSeq(bytes, LAMBDA c : c \notin {CR, LF}))

\* C28: of the controller's lines only one that is exactly ok, or one that
\* starts with error:, clears the pending flag; a line that only contains ok
\* (ok2, [ok]) does not. A banner line (starting with Grbl) and any other
\* line that is neither ok, error: nor ALARM: leaves the job state, the
\* pending flag, the cursor and the open file unchanged.
C28_OnlyOkAndErrorAck ==
  [][\A bytes \in RxLines :
       (tx' = <<>> /\ UNCHANGED <<uptime, wsVars, currentLine>>
          /\ ProcessGrblResponse(bytes)) =>
         LET text == LineText(bytes)
         IN  /\ waitingForOk' # waitingForOk =>
                  (text = OkLine \/ StartsWith(text, ErrorPrefix))
             /\ (text # OkLine /\ ~StartsWith(text, ErrorPrefix)
                   /\ ~StartsWith(text, AlarmPrefix)) =>
                  UNCHANGED <<jobState, waitingForOk, currentLine, gcodeFile>>]_vars

\* The banner has just arrived while a Running job has a command pending:
\* the command is still pending.
C28_Witness ==
  /\ event = "GRBL"
  /\ jobState = JOB_RUNNING
  /\ waitingForOk
  /\ currentLine >= 1

(* ------------------------------- C29 ---------------------------------- *)

\* The bytes of the controller's streams: the letters of ok, a blank, CR, LF.
RxAlphabet == {"o", "k", " ", CR, LF}

\* The bridge after setup(), with any stream of at most MaxStreamLen bytes
\* about to arrive from the controller.
InitSplit ==
  /\ InitCommon
  /\ uptime = 0
  /\ fs = [p \in {PathB} |-> FileB]
  /\ strIn = <<>>
  /\ track = FALSE
  /\ logOn = FALSE
  /\ serialLog = <<>>
  /\ rxAll \in SeqsUpTo(RxAlphabet, MaxStreamLen)
  /\ rxStream = rxAll
  /\ rxSeen = <<>>

\* The stream arrives in polls of any sizes, before or after a job is
\* started (which sets the pending flag) or stopped.
NextSplit ==
  \/ \E n \in 1..MaxStreamLen : PollChunk(n)
  \/ StartJob(NameB)
  \/ StopJob

SpecSplit == InitSplit /\ [][NextSplit]_vars

\* The bytes of the stream that have been polled so far.
Delivered == SubSeq(rxAll, 1, Len(rxAll) - Len(rxStream))

\* The LF-terminated pieces of s, in order, and what follows the last LF.
RECURSIVE CompleteLines(_)
CompleteLines(s) ==
  LET p == IndexOf(s, LF)
  IN  IF p < 0 THEN <<>>
      ELSE <<Substring0(s, p)>> \o CompleteLines(SubSeq(s, p + 2, Len(s)))

RECURSIVE PartialLine(_)
PartialLine(s) ==
  LET p == IndexOf(s, LF)
  IN  IF p < 0 THEN s ELSE PartialLine(SubSeq(s, p + 2, Len(s)))

RECURSIVE TrimAll(_)
TrimAll(ls) == IF ls = <<>> THEN <<>> ELSE <<Trim(Head(ls))>> \o TrimAll(Tail(ls))

\* The lines of s that are to be classified: its LF-terminated lines with
\* every CR taken out, trimmed, the empty ones left out.
ClassifiedLines(s) ==
  SelectSeq(TrimAll(CompleteLines(SelectSeq(s, LAMBDA c : c # CR))),
            LAMBDA l : l # <<>>)

\* C29: the lines that reach classification depend only on the bytes
\* received, not on how the polls split them: at every point they are the
\* LF-terminated lines of the bytes received so far, every CR discarded, in
\* order, each once, without the empty and all-blank ones, and the
\* accumulator holds the unterminated rest. A poll that completes no such
\* line changes neither job state, pending flag, cursor nor open file.
C29_SplitIndependent ==
  /\ [](/\ rxSeen = ClassifiedLines(Delivered)
        /\ lineBuffer = PartialLine(SelectSeq(Delivered, LAMBDA c : c # CR)))
  /\ [][(rxStream' # rxStream /\ rxSeen' = rxSeen) =>
          /\ UNCHANGED <<jobState, waitingForOk, currentLine, gcodeFile>>
          /\ event' = ""]_vars

\* The stream "o", CR, "k", LF has arrived while the homing command was
\* pending, and its one line was taken as ok.
C29_Witness ==
  /\ rxAll = <<"o", CR, "k", LF>>
  /\ rxStream = <<>>
  /\ rxSeen = <<OkLine>>
  /\ jobState = JOB_PRE_HOMING
  /\ ~waitingForOk

(* ------------------------------- C30 ---------------------------------- *)

\* n times the byte c.
Fill(c, n) == [i \in 1..n |-> c]

\* The frames of the buffer-overflow specification: a long and a short run
\* of a command letter and a long run of blanks without a line feed, a run
\* of blanks ended by a feed hold, and a command line.
LongFrames ==
  {Fill("G", 200), Fill("G", 57), Fill(" ", 200),
   Fill(" ", 56) \o <<"!">>, <<"G", LF>>}

\* The interactive peer connects, disconnects and sends these frames as
\* text or binary.
NextWsLong ==
  \/ WsConnect
  \/ WsDisconnect
  \/ \E payload \in LongFrames : WsText(payload)
  \/ \E payload \in LongFrames : WsBin(payload)

SpecWsLong == Init /\ [][NextWsLong]_vars

\* The step is the arrival of p, a frame without LF, as a text frame or, if
\* it has no realtime byte, as a binary frame, and it takes the buffer, which
\* does not begin with a realtime byte, beyond its limit.
OverflowBy(p) ==
  /\ CountChar(p, LF) = 0
  /\ Head(wsInputBuffer \o p) \notin RealtimeBytes
  /\ Len(wsInputBuffer) + Len(p) > WS_BUFFER_LIMIT
  /\ \/ WsText(p)
     \/ (\A i \in DOMAIN p : p[i] \notin RealtimeBytes) /\ WsBin(p)

\* After an interactive payload the buffer holds an incomplete line only.
BufferHoldsPartialLine ==
  /\ CountChar(wsInputBuffer, LF) = 0
  /\ wsInputBuffer # <<>> => Head(wsInputBuffer) \notin RealtimeBytes
  /\ Len(wsInputBuffer) <= WS_BUFFER_LIMIT

\* C30 as stated: after every processed interactive payload the buffer
\* contains no LF, does not begin with a realtime byte and is at most 256
\* bytes long; a buffer that grew beyond 256 bytes without a terminator has
\* been written as one single command and emptied; and the buffer is empty
\* after every connect and disconnect.
C30_OverflowFlushedAsCommand ==
  /\ []BufferHoldsPartialLine
  /\ [][\A p \in LongFrames :
          OverflowBy(p) => (wsInputBuffer' = <<>> /\ CountChar(tx', LF) = 1)]_vars
  /\ [][(WsConnect \/ WsDisconnect) => wsInputBuffer' = <<>>]_vars

\* C30, amended: as stated, but the overflowing buffer is emptied and handed
\* to the line sender: what is written is its content without CRs and
\* trimmed, followed by LF, as one single command; nothing is written if
\* nothing is left after trimming, and a lone realtime byte is written
\* without LF.
C30_OverflowFlushedThroughSender ==
  /\ []BufferHoldsPartialLine
  /\ [][\A p \in LongFrames :
          OverflowBy(p) =>
            LET line == Trim(SelectSeq(wsInputBuffer \o p, LAMBDA c : c # CR))
            IN  /\ wsInputBuffer' = <<>>
                /\ tx' = IF line = <<>> THEN <<>>
                         ELSE IF Len(line) = 1 /\ line[1] \in RealtimeBytes THEN line
                         ELSE line \o <<LF>>]_vars
  /\ [][(WsConnect \/ WsDisconnect) => wsInputBuffer' = <<>>]_vars

\* A buffer of 257 command letters has just been written as one line, and
\* the buffer is empty.
C30_Witness ==
  /\ tx = Fill("G", 257) \o <<LF>>
  /\ wsInputBuffer = <<>>
  /\ wsClients > 0

(* ------------------------------- C31 ---------------------------------- *)

\* Longest buffer plus payload of the interactive-line specification.
MaxWsLine == 4

\* The text frames of the interactive-line specification: pieces of command
\* lines with comment characters and blanks, line terminators, two lines in
\* one frame, and a line made of a status query alone.
LineFrames ==
  {<<"G">>, <<";">>, <<"(">>, <<" ">>, <<LF>>, <<CR, LF>>, <<"G", ";">>,
   <<"G", LF, "(", LF>>, <<LF, "?", LF>>}

\* The interactive peer connects, disconnects and sends text frames.
NextWsLine ==
  \/ WsConnect
  \/ WsDisconnect
  \/ \E payload \in LineFrames :
       Len(wsInputBuffer) + Len(payload) <= MaxWsLine /\ WsText(payload)

SpecWsLine == Init /\ [][NextWsLine]_vars

\* A line without its terminator: the LF is already cut off, a CR before it
\* is cut off here.
Unterminated(l) == IF EndsWith(l, <<CR>>) THEN SubSeq(l, 1, Len(l) - 1) ELSE l

\* The lines ls as the claim has them on the serial link: each line that is
\* not blank, without its terminator, followed by one LF, in order.
RECURSIVE VerbatimLines(_)
VerbatimLines(ls) ==
  IF ls = <<>> THEN <<>>
  ELSE (IF LineText(Head(ls)) = <<>> THEN <<>> ELSE Unterminated(Head(ls)) \o <<LF>>)
       \o VerbatimLines(Tail(ls))

\* The lines ls as the line sender writes them: each line without CRs and
\* without leading and trailing white space, nothing for a blank line, a
\* lone realtime byte as itself, every other line followed by one LF.
RECURSIVE ForwardedLines(_)
ForwardedLines(ls) ==
  IF ls = <<>> THEN <<>>
  ELSE LET t == LineText(Head(ls))
       IN  (IF t = <<>> THEN <<>>
            ELSE IF Len(t) = 1 /\ t[1] \in RealtimeBytes THEN t
            ELSE t \o <<LF>>) \o ForwardedLines(Tail(ls))

\* The step is the arrival of the text frame p on a buffer that does not
\* begin with a realtime byte.
LineFrameArrives(p) ==
  /\ Len(wsInputBuffer) + Len(p) <= MaxWsLine
  /\ Head(wsInputBuffer \o p) \notin RealtimeBytes
  /\ WsText(p)

\* C31 as stated: the complete lines of the buffer and the arriving frame
\* are written in arrival order, each once, with their ';' and '(' text
\* intact and only the line terminator removed, followed by a single LF; the
\* incomplete rest stays in the buffer.
C31_InteractiveLinesVerbatim ==
  [][\A p \in LineFrames :
       LineFrameArrives(p) =>
         /\ tx' = VerbatimLines(CompleteLines(wsInputBuffer \o p))
         /\ wsInputBuffer' = PartialLine(wsInputBuffer \o p)]_vars

\* C31, amended: the complete lines are written in arrival order, each once,
\* never comment-stripped: every ';' and '(' of a complete line is written;
\* besides the line terminator, CRs and leading and trailing white space
\* are removed, a line left empty is not written, a line left as one
\* realtime byte is written as that byte, every other line is followed by a
\* single LF; the incomplete rest stays in the buffer.
C31_InteractiveLinesNotStripped ==
  [][\A p \in LineFrames :
       LineFrameArrives(p) =>
         LET whole == wsInputBuffer \o p
             done  == SubSeq(whole, 1, Len(whole) - Len(PartialLine(whole)))
         IN  /\ tx' = ForwardedLines(CompleteLines(whole))
             /\ CountChar(tx', ";") = CountChar(done, ";")
             /\ CountChar(tx', "(") = CountChar(done, "(")
             /\ wsInputBuffer' = PartialLine(whole)]_vars

\* A line with a comment after its command has just been written whole.
C31_Witness ==
  /\ tx = <<"G", ";", LF>>
  /\ wsInputBuffer = <<>>
  /\ wsClients > 0

(* ---------------------------- C32 and C33 ----------------------------- *)

\* How many lines of log the log specification follows.
MaxLogLines == 2

\* A log of exactly MAX_LOG characters: one long line of the controller,
\* logged with its leading LF while the bridge was idle.
FullLog == <<LF>> \o Fill("x", MAX_LOG - 1)

\* The bridge after setup(), with the log recorded; or later, when the log
\* has been filled.
InitLog ==
  /\ InitCommon
  /\ uptime = 0
  /\ fs = [p \in {PathB} |-> FileB]
  /\ strIn = <<>>
  /\ track = FALSE
  /\ rxAll = <<>>
  /\ rxStream = <<>>
  /\ logOn = TRUE
  /\ serialLog \in {MsgBanner, FullLog}

\* The log is within the part that the log specification follows.
LogRoom == CountChar(serialLog, LF) <= MaxLogLines

\* Jobs, controller lines, HTTP commands and WebSocket events, while the
\* log is within the part that is followed.
NextLog ==
  \/ LogRoom /\ StartJob(NameB)
  \/ LogRoom /\ StartJob(NameMissing)
  \/ LogRoom /\ StopJob
  \/ LogRoom /\ ProcessJob
  \/ \E bytes \in {CrLf(OkLine), CrLf(GrblPrefix \o <<" ", "1">>)} :
       LogRoom /\ ProcessGrblResponse(bytes)
  \/ LogRoom /\ HandleGrbl("unlock", <<>>)
  \/ LogRoom /\ HandleGrblClearLog
  \/ LogRoom /\ WsConnect
  \/ LogRoom /\ WsDisconnect
  \/ \E num \in 0..(MaxClients - 1) : LogRoom /\ WsError(num)

SpecLog == InitLog /\ [][NextLog]_vars

C33_LogBounded == Len(serialLog) <= MAX_LOG

(* ------------------------------- C34 ---------------------------------- *)

\* C34: the job goes from PreHoming to Running only with the pending flag
\* cleared, and while the job stays in PreHoming the flag set by the
\* pre-homing $H is cleared only by an ok line from the controller: not by
\* an error: line, not by anything else.
C34_HomingNeedsOk ==
  /\ [][(jobState = JOB_PRE_HOMING /\ jobState' = JOB_RUNNING) => ~waitingForOk]_vars
  /\ [][(jobState = JOB_PRE_HOMING /\ jobState' = JOB_PRE_HOMING
           /\ waitingForOk /\ ~waitingForOk')
          => ProcessGrblResponse(CrLf(OkLine))]_vars

(* ------------------------------- C35 ---------------------------------- *)

\* The end of time in the specifications with fairness.
LiveHorizon == 330001

\* The timeout of the phase the job is in.
PhaseTimeout == IF jobState = JOB_RUNNING THEN COMMAND_TIMEOUT ELSE HOMING_TIMEOUT

\* The longest time that a job of n lines can be active when loop() calls
\* processJob() at least once per TickStep: two homing phases and n program
\* lines, each up to its timeout and one TickStep more.
JobSpan(n) == 2 * (HOMING_TIMEOUT + TickStep) + n * (COMMAND_TIMEOUT + TickStep)

\* loop() runs processJob() many times per TickStep: time passes between two
\* steps of loop() only when processJob() has nothing to do, which is when
\* no job is active or the job waits for a response and its timeout has not
\* expired.
AdvanceTimeLive ==
  /\ uptime + TickStep <= LiveHorizon
  /\ JobActive => (waitingForOk /\ Elapsed <= PhaseTimeout)
  /\ uptime' = uptime + TickStep
  /\ tx' = <<>>
  /\ event' = ""
  /\ NoLog
  /\ UNCHANGED <<jobVars, wsVars, lineBuffer, fs, ghostVars, strVars>>

\* A job is started, or resumed, while there is time left for all of it;
\* the controller answers ok or error: at any time, or never; the job can
\* be paused or stopped and the controller reset over HTTP.
NextLive ==
  \/ uptime + JobSpan(CountLinesFrom(fs[PathB], 0)) <= LiveHorizon /\ StartJob(NameB)
  \/ ProcessJob
  \/ \E bytes \in {CrLf(OkLine), CrLf(ErrorPrefix \o <<"1">>)} : ProcessGrblResponse(bytes)
  \/ PauseJob
  \/ uptime + JobSpan(CountLinesFrom(fs[PathB], 0)) <= LiveHorizon /\ ResumeJob
  \/ StopJob
  \/ HandleGrbl("reset", <<>>)
  \/ AdvanceTimeLive

\* processJob() has something to do: a job is active and it does not wait
\* for a response with its timeout still running.
TickDue == JobActive /\ ~(waitingForOk /\ Elapsed <= PhaseTimeout)

\* loop() calls processJob() in every iteration, and time passes: a call
\* of processJob() that has something to do is not put off forever (weak
\* fairness of ProcessJob where it is due), and time advances whenever
\* it can.
SpecLive ==
  /\ Init /\ [][NextLive]_vars
  /\ WF_vars(AdvanceTimeLive)
  /\ ([]<>(~TickDue) \/ []<><<ProcessJob>>_vars)

\* C35: a job in PreHoming, Running or PostHoming eventually is Complete,
\* in Error, Paused or Idle.
C35_NeverStuckActive ==
  (jobState \in {JOB_PRE_HOMING, JOB_RUNNING, JOB_POST_HOMING})
    ~> (jobState \in {JOB_COMPLETE, JOB_ERROR, JOB_PAUSED, JOB_IDLE})

\* The pre-homing of a job that was never answered has timed out.
C35_Witness ==
  /\ jobState = JOB_ERROR
  /\ event = "Homing Timeout!"
  /\ waitingForOk
  /\ currentLine = 0

(* ------------------------------- C36 ---------------------------------- *)

\* Time passes while the controller still has time to answer: with a
\* command pending, never beyond the timeout of the phase.
AdvanceTimeOk ==
  /\ uptime + TickStep <= LiveHorizon
  /\ JobActive => (waitingForOk /\ Elapsed + TickStep <= PhaseTimeout)
  /\ uptime' = uptime + TickStep
  /\ tx' = <<>>
  /\ event' = ""
  /\ NoLog
  /\ UNCHANGED <<jobVars, wsVars, lineBuffer, fs, ghostVars, strVars>>

\* The controller answers a pending command with ok.
AnswerOk == waitingForOk /\ ProcessGrblResponse(CrLf(OkLine))

\* A stored file is started; nothing stops or pauses the job, no alarm and
\* no interactive command arrives.
NextOk ==
  \/ StartJob(NameB)
  \/ ProcessJob
  \/ AnswerOk
  \/ AdvanceTimeOk

\* The stored program is one of the two sample files, or empty.
InitOk ==
  /\ InitCommon
  /\ uptime = 0
  /\ fs \in {[p \in {PathB} |-> c] : c \in {FileB, ScenarioA, <<>>}}
  /\ strIn = <<>>
  /\ track = FALSE
  /\ logOn = FALSE
  /\ serialLog = <<>>
  /\ rxAll = <<>>
  /\ rxStream = <<>>

\* A command of the job is pending.
AnswerDue == JobActive /\ waitingForOk

\* loop() calls processJob() in every iteration and the controller answers
\* every command: neither a due call of processJob() nor a due answer is
\* put off forever.
SpecOk ==
  /\ InitOk /\ [][NextOk]_vars
  /\ ([]<>(~TickDue) \/ []<><<ProcessJob>>_vars)
  /\ ([]<>(~AnswerDue) \/ []<><<AnswerOk>>_vars)

\* The phases of a job in their order; a new job starts from Idle or from
\* a terminal state.
PhaseOrder ==
  {<<JOB_IDLE, JOB_PRE_HOMING>>, <<JOB_COMPLETE, JOB_PRE_HOMING>>,
   <<JOB_PRE_HOMING, JOB_RUNNING>>, <<JOB_RUNNING, JOB_POST_HOMING>>,
   <<JOB_POST_HOMING, JOB_COMPLETE>>}

\* C36: with a stored file, every command answered with ok in time and no
\* interference, a started job eventually is Complete, changes its state
\* only along PreHoming, Running, PostHoming, Complete, and is never in Error.
C36_AnsweredJobCompletes ==
  /\ (jobState = JOB_PRE_HOMING) ~> (jobState = JOB_COMPLETE)
  /\ [](jobState # JOB_ERROR)
  /\ [][jobState' # jobState => <<jobState, jobState'>> \in PhaseOrder]_vars

\* A job that sent program lines has completed on the ok for the final $H,
\* after time has passed.
C36_Witness ==
  /\ jobState = JOB_COMPLETE
  /\ event = "Job complete!"
  /\ Len(progSent) > 0
  /\ uptime > 0
  /\ lastCommandTime > 0

(* ------------------------------- C37 ---------------------------------- *)

\* C37: an Idle job has no command pending, no file open, both line
\* counters at 0 and no job file name.
C37_IdleIsClean ==
  jobState = JOB_IDLE =>
    /\ ~waitingForOk
    /\ ~gcodeFile.open
    /\ currentLine = 0
    /\ totalLines = 0
    /\ currentJobFile = <<>>

\* A job that was started after time had passed has been stopped.
C37_Witness ==
  /\ jobState = JOB_IDLE
  /\ tx = <<CTRL_X>>
  /\ lastCommandTime > 0
  /\ ~wsLaserConnected
  /\ wsClients = 0

(* ------------------------------- C38 ---------------------------------- *)

\* C38: in Running and in Paused the program file is open, and close() on
\* the command timeout was never called on a handle that was not open.
C38_RunningHasOpenFile ==
  /\ jobState \in {JOB_RUNNING, JOB_PAUSED} => gcodeFile.open
  /\ ~badClose

\* A job was paused in the middle of its file, with a line pending.
C38_Witness ==
  /\ jobState = JOB_PAUSED
  /\ gcodeFile.open
  /\ gcodeFile.pos > 0
  /\ currentLine > 0
  /\ waitingForOk

(* ------------------------------- C39 ---------------------------------- *)

\* C39: a WebSocket client that connects while a job is in PreHoming,
\* Running, Paused or PostHoming makes the program write 0x18 and leaves
\* the job state, the pending flag, the send time, currentLine and the
\* file handle as they were.
C39_ConnectLeavesJob ==
  [][(WsConnect /\ jobState \in {JOB_PRE_HOMING, JOB_RUNNING, JOB_PAUSED, JOB_POST_HOMING})
       => (/\ tx' = <<CTRL_X>>
           /\ UNCHANGED <<jobState, waitingForOk, lastCommandTime, currentLine, gcodeFile>>)]_vars

\* A client has just connected to a Running job that has a line pending.
C39_Witness ==
  /\ event = "[WS] Client"
  /\ tx = <<CTRL_X>>
  /\ jobState = JOB_RUNNING
  /\ waitingForOk
  /\ gcodeFile.open
  /\ currentLine > 0

(* ------------------------------- C40 ---------------------------------- *)

\* How long the specification of the clock wrap runs.
WrapSpan == 240001

\* The program has been idle since boot and the clock is two steps before
\* its wrap.
WrapStart == Uint32 - 2 * TickStep

InitWrap ==
  /\ InitCommon
  /\ uptime = WrapStart
  /\ fs = [p \in {PathB} |-> FileB]
  /\ strIn = <<>>
  /\ track = FALSE
  /\ logOn = FALSE
  /\ serialLog = <<>>
  /\ rxAll = <<>>
  /\ rxStream = <<>>

\* Time passes, across the wrap of millis().
AdvanceTimeWrap ==
  /\ uptime + TickStep <= WrapStart + WrapSpan
  /\ uptime' = uptime + TickStep
  /\ tx' = <<>>
  /\ event' = ""
  /\ NoLog
  /\ UNCHANGED <<jobVars, wsVars, lineBuffer, fs, ghostVars, strVars>>

NextWrap ==
  \/ StartJob(NameB)
  \/ ProcessJob
  \/ ProcessGrblResponse(CrLf(OkLine))
  \/ PauseJob
  \/ ResumeJob
  \/ AdvanceTimeWrap

SpecWrap == InitWrap /\ [][NextWrap]_vars

\* C40: on a job tick with a command pending, the homing timeout
\* (PreHoming: Error, PostHoming: Complete) and the command timeout
\* (Running: Error) fire exactly when the time since the send, measured on
\* a clock that never wraps, exceeds the bound, as long as that time is less
\* than one period of the wrapping clock.
C40_TimeoutAcrossWrap ==
  /\ [][(ProcessJob /\ jobState = JOB_PRE_HOMING /\ waitingForOk
            /\ SinceSend < Uint32)
         => ((jobState' = JOB_ERROR) <=> (SinceSend > HOMING_TIMEOUT))]_vars
  /\ [][(ProcessJob /\ jobState = JOB_RUNNING /\ waitingForOk
            /\ SinceSend < Uint32)
         => ((jobState' = JOB_ERROR) <=> (SinceSend > COMMAND_TIMEOUT))]_vars
  /\ [][(ProcessJob /\ jobState = JOB_POST_HOMING /\ waitingForOk
            /\ SinceSend < Uint32)
         => ((jobState' = JOB_COMPLETE) <=> (SinceSend > HOMING_TIMEOUT))]_vars

\* The command timeout has fired for a line that was sent before the clock
\* wrapped and checked after it.
C40_Witness ==
  /\ jobState = JOB_ERROR
  /\ event = "Timeout!"
  /\ sentAt < Uint32
  /\ uptime >= Uint32
  /\ Millis < lastCommandTime

====
